---- MODULE Spec2Model ----
(***************************************************************************)
(* A model of @quave/logger: the logger facade (createLogger), the error   *)
(* normalizer (extractErrorFields), the warning reclassifier               *)
(* (shouldTreatAsWarning), the console transport and the Slack transport.  *)
(*                                                                         *)
(* JavaScript strings are sequences of symbols (a symbol is a character or *)
(* a whole word, written as a TLA+ string): "User not found" is the        *)
(* sequence <<"User", " ", "not", " ", "found">> and String.includes is    *)
(* containment of a contiguous subsequence.  JavaScript values carry their *)
(* typeof tag, so that truthiness, typeof tests, method lookup and String()*)
(* are computed as the runtime computes them.                              *)
(***************************************************************************)
EXTENDS Integers, Sequences, FiniteSets, TLC

----------------------------------------------------------------------------
(* JavaScript values                                                       *)

\* A primitive or opaque value: t is the typeof tag ("null" and "array" are
\* told apart from "object"), s the characters of a string or the items of
\* an array (each item a one-symbol string), n a number or a boolean (1/0).
Prim(t, s, n) == [t |-> t, s |-> s, n |-> n]

Absent == Prim("absent", <<>>, 0)
Undef == Prim("undefined", <<>>, 0)
Null == Prim("null", <<>>, 0)
JStr(s) == Prim("string", s, 0)
JNum(n) == Prim("number", <<>>, n)
JBool(b) == Prim("boolean", <<>>, IF b THEN 1 ELSE 0)
JObj == Prim("object", <<>>, 0)
JArr(items) == Prim("array", items, 0)

\* An object without toString and valueOf, such as Object.create(null):
\* String() of it throws a TypeError.
Bare == Prim("bare", <<>>, 0)

\* ToBoolean: what `!x`, `x || y` and `x && y` test.
Truthy(v) ==
    CASE v.t \in {"absent", "undefined", "null"} -> FALSE
      [] v.t = "string" -> v.s # <<>>
      [] v.t = "number" -> v.n # 0
      [] v.t = "boolean" -> v.n = 1
      [] OTHER -> TRUE

Digit(d) == <<"0", "1", "2", "3", "4", "5", "6", "7", "8", "9">>[d + 1]

RECURSIVE Digits(_)
Digits(n) == IF n < 10 THEN <<Digit(n)>> ELSE Digits(n \div 10) \o <<Digit(n % 10)>>

RECURSIVE Join(_)
Join(items) ==
    IF items = <<>> THEN <<>>
    ELSE IF Len(items) = 1 THEN <<items[1]>>
    ELSE <<items[1], ",">> \o Join(Tail(items))

\* String(v), also what a template literal does to v.
JSString(v) ==
    CASE v.t = "string" -> v.s
      [] v.t = "number" -> Digits(v.n)
      [] v.t = "boolean" -> IF v.n = 1 THEN <<"true">> ELSE <<"false">>
      [] v.t = "null" -> <<"null">>
      [] v.t = "array" -> Join(v.s)
      [] v.t = "object" -> <<"[object Object]">>
      [] OTHER -> <<"undefined">>

\* String.prototype.includes: p occurs in s as a contiguous subsequence.
Includes(s, p) ==
    \E i \in 0..(Len(s) - Len(p)) : \A j \in 1..Len(p) : s[i + j] = p[j]

\* String.prototype.startsWith('#')
StartsWithHash(s) == Len(s) > 0 /\ s[1] = "#"

\* An argument of a facade call.  For an object, message/reason/details/stack
\* are its properties (Undef when it has none), isError says it is an
\* instance of Error, customChannel and fields are the properties an options
\* object carries.  Non-objects have no own properties.  trap names the
\* property whose getter throws ("none" for an object without such a getter)
\* and what it throws; bare says the object cannot be converted to a string.
FieldOrder ==
    <<"appName", "customChannel", "isBackground", "userId", "version",
      "environment", "errorMessage", "errorReason", "errorDetails",
      "errorStack", "errorFormatInvalid", "errorFormatError", "errorRawValue",
      "errorRawMessage", "errorRawReason", "errorRawDetails", "errorRawStack",
      "errorFormatIssue", "originalMessage", "errorType">>

\* The keys of a fields object; Object.entries lists the keys an object has
\* in the order of FieldOrder.
FieldKeys == {FieldOrder[i] : i \in 1..Len(FieldOrder)}

\* The empty object literal {} as a fields mapping.
NoFields == [k \in FieldKeys |-> Absent]

\* {...f, ...g}
Spread(f, g) == [k \in FieldKeys |-> IF g[k].t # "absent" THEN g[k] ELSE f[k]]

\* {...f, [key]: v}
With(f, key, v) == [f EXCEPT ![key] = v]

\* ...(v && {[key]: v})
WithIf(f, key, v) == IF Truthy(v) THEN With(f, key, v) ELSE f

Has(f, key) == f[key].t # "absent"

\* What a throw statement throws: an Error with a message (kind "error"), a
\* value without a message property (throw 'text', kind "string"), null /
\* undefined (kind "nullish"), or an object without message, name, stack and
\* toString, such as Object.create(null) (kind "bare").
ThrownError(message) == [kind |-> "error", message |-> message]
NotThrown == [kind |-> "none", message |-> <<>>]

Arg(p, isError, message, reason, details, stack, customChannel, fields) ==
    [t |-> p.t, s |-> p.s, n |-> p.n, isError |-> isError,
     message |-> message, reason |-> reason, details |-> details,
     stack |-> stack, customChannel |-> customChannel, fields |-> fields,
     trap |-> [on |-> "none", thrown |-> NotThrown], bare |-> FALSE]

\* The object a with a getter on property `on` that throws `thrown`, and,
\* when bare, without toString and valueOf.
HostileArg(a, on, thrown, bare) ==
    [a EXCEPT !.trap = [on |-> on, thrown |-> thrown], !.bare = bare]

\* A non-object argument.
PrimArg(p) == Arg(p, FALSE, Undef, Undef, Undef, Undef, Undef, NoFields)

\* A plain object {message, reason, details, stack}.
ObjArg(message, reason, details, stack) ==
    Arg(JObj, FALSE, message, reason, details, stack, Undef, NoFields)

\* new Error(message): message and stack are strings.
ErrorArg(message) ==
    Arg(JObj, TRUE, JStr(message), Undef, Undef, JStr(<<"stack">>), Undef, NoFields)

\* An options object {customChannel, fields}.
OptionsArg(customChannel, fields) ==
    Arg(JObj, FALSE, Undef, Undef, Undef, Undef, customChannel, fields)

UndefArg == PrimArg(Undef)

\* The primitive view of an argument (its typeof, characters, number).
AsPrim(a) == Prim(a.t, a.s, a.n)

\* error.message, error.reason, ... on a truthy value: a non-object has none.
PropMessage(a) == IF a.t = "object" THEN a.message ELSE Undef
PropReason(a) == IF a.t = "object" THEN a.reason ELSE Undef
PropDetails(a) == IF a.t = "object" THEN a.details ELSE Undef
PropStack(a) == IF a.t = "object" THEN a.stack ELSE Undef

\* typeof v
TypeOf(v) == IF v.t \in {"null", "array", "bare", "ref"} THEN "object" ELSE v.t

\* A reference to the array or object that is node id of a heap.  A heap is
\* a sequence of nodes; a node is an array (items are its elements), a plain
\* object or an Error instance (items are its property values).
Ref(id) == Prim("ref", <<>>, id)

Node(kind, items) == [kind |-> kind, items |-> items]

----------------------------------------------------------------------------
(* utils/errors.js                                                         *)

MsgMustBe(field) == <<"error.", field, " must be a string or number">>
StackMustBe == <<"error.", "stack", " must be a string">>

\* Variant: a mistyped field sets the flag and leaves the description alone.
AppendFormatErrorFlagOnly(f, clause) == With(f, "errorFormatInvalid", JBool(TRUE))

\* fields.errorFormatError ? `${fields.errorFormatError}; ${clause}` : clause
AppendFormatError(f, clause) ==
    With(With(f, "errorFormatInvalid", JBool(TRUE)),
         "errorFormatError",
         IF Truthy(f["errorFormatError"])
         THEN JStr(JSString(f["errorFormatError"]) \o <<"; ">> \o clause)
         ELSE JStr(clause))

\* Variant: the blocks keep no raw copy of a mistyped value.
ExtractStringOrNumberNoRaw(f, v, field, outKey, rawKey) ==
    IF v.t = "undefined" THEN f
    ELSE IF TypeOf(v) \in {"string", "number"}
    THEN With(f, outKey, JStr(JSString(v)))
    ELSE AppendFormatError(f, MsgMustBe(field))

\* One of the message / reason / details blocks of extractErrorFields.
ExtractStringOrNumber(f, v, field, outKey, rawKey) ==
    IF v.t = "undefined" THEN f
    ELSE IF TypeOf(v) \in {"string", "number"}
    THEN With(f, outKey, JStr(JSString(v)))
    ELSE With(AppendFormatError(f, MsgMustBe(field)), rawKey, JStr(JSString(v)))

\* Variant: the stack clause replaces the description instead of extending it.
ExtractStackOverwriting(f, v) ==
    IF v.t = "undefined" THEN f
    ELSE IF TypeOf(v) = "string" THEN With(f, "errorStack", v)
    ELSE With(With(f, "errorFormatInvalid", JBool(TRUE)),
              "errorFormatError", JStr(StackMustBe))

\* The stack block of extractErrorFields: no raw copy is kept.
ExtractStack(f, v) ==
    IF v.t = "undefined" THEN f
    ELSE IF TypeOf(v) = "string" THEN With(f, "errorStack", v)
    ELSE AppendFormatError(f, StackMustBe)

\* What reading error[field] and, for a value that is no string or number,
\* String(value) throws: String throws a TypeError on an object that cannot
\* be converted.
ReadThrows(error, field, value) ==
    IF error.trap.on = field THEN error.trap.thrown
    ELSE IF value.t = "bare"
    THEN ThrownError(<<"Cannot convert object to primitive value">>)
    ELSE NotThrown

\* The exception that ends the try block of extractErrorFields on an object:
\* the first one thrown, reading message, reason, details and stack in turn.
ExtractionFailure(error) ==
    LET m == ReadThrows(error, "message", PropMessage(error))
        r == ReadThrows(error, "reason", PropReason(error))
        d == ReadThrows(error, "details", PropDetails(error))
    IN IF m.kind # "none" THEN m
       ELSE IF r.kind # "none" THEN r
       ELSE IF d.kind # "none" THEN d
       ELSE IF error.trap.on = "stack" THEN error.trap.thrown
       ELSE NotThrown

\* The call does not return: the catch block of extractErrorFields throws,
\* reading extractionError.message of null or undefined, or in String(error)
\* on an object that cannot be converted.
ExtractionRaises(error) ==
    /\ Truthy(AsPrim(error))
    /\ TypeOf(AsPrim(error)) = "object"
    /\ ExtractionFailure(error).kind # "none"
    /\ (ExtractionFailure(error).kind = "nullish" \/ error.bare)

\* What extractErrorFields returns, when it returns.
extractErrorFields(error) ==
    IF ~Truthy(AsPrim(error)) THEN NoFields
    ELSE IF TypeOf(AsPrim(error)) # "object"
    THEN With(With(With(NoFields, "errorFormatInvalid", JBool(TRUE)),
              "errorFormatError",
              JStr(<<"Expected error to be an object, but received ",
                     TypeOf(AsPrim(error))>>)),
              "errorRawValue", JStr(JSString(AsPrim(error))))
    ELSE IF ExtractionFailure(error).kind # "none"
    THEN LET thrown == ExtractionFailure(error)
             \* `${extractionError.message}`
             thrownMessage == IF thrown.kind = "error" THEN thrown.message
                              ELSE <<"undefined">>
         IN With(With(With(NoFields, "errorFormatInvalid", JBool(TRUE)),
                 "errorFormatError",
                 JStr(<<"Failed to extract error fields: ">>
                      \o thrownMessage)),
                 "errorRawValue", JStr(JSString(AsPrim(error))))
    ELSE LET f1 == ExtractStringOrNumber(NoFields, PropMessage(error),
                       "message", "errorMessage", "errorRawMessage")
             f2 == ExtractStringOrNumber(f1, PropReason(error),
                       "reason", "errorReason", "errorRawReason")
             f3 == ExtractStringOrNumber(f2, PropDetails(error),
                       "details", "errorDetails", "errorRawDetails")
         IN ExtractStack(f3, PropStack(error))

\* Whether v has an includes method (strings and arrays do).
HasIncludes(v) == v.t \in {"string", "array"}

\* v.includes(pattern) for a v that has the method.
IncludesCall(v, pattern) ==
    IF v.t = "string" THEN Includes(v.s, pattern)
    ELSE \E i \in 1..Len(v.s) : <<v.s[i]>> = pattern

\* patterns.some(p => message.includes(p) || reason.includes(p)):
\* "true", "false", or "throw" when includes is called on a value without it.
RECURSIVE SomePattern(_, _, _)
SomePattern(message, reason, patterns) ==
    IF patterns = <<>> THEN "false"
    ELSE IF ~HasIncludes(message) THEN "throw"
    ELSE IF IncludesCall(message, Head(patterns)) THEN "true"
    ELSE IF ~HasIncludes(reason) THEN "throw"
    ELSE IF IncludesCall(reason, Head(patterns)) THEN "true"
    ELSE SomePattern(message, reason, Tail(patterns))

\* x || ''
OrEmpty(v) == IF Truthy(v) THEN v ELSE JStr(<<>>)

shouldTreatAsWarning(error, patterns) ==
    IF ~Truthy(AsPrim(error)) \/ Len(patterns) = 0 THEN "false"
    ELSE IF error.trap.on \in {"message", "reason"} THEN "throw"
    ELSE SomePattern(OrEmpty(PropMessage(error)), OrEmpty(PropReason(error)),
                     patterns)

DEFAULT_WARNING_PATTERNS ==
    << <<"User", " ", "not", " ", "found">>,
       <<"Failed", " ", "to", " ", "fetch">>,
       <<"Load", " ", "failed">>,
       <<"Network", " ", "error">>,
       <<"Timeout">> >>

----------------------------------------------------------------------------
(* Bounds and inputs                                                       *)

\* Facade calls are made with 0..MaxArgs positional arguments.
MaxArgs == 3

\* Numbers that occur as error values or as fields of error objects.
MaxNumber == 404

----------------------------------------------------------------------------
(* State                                                                   *)

VARIABLES
    NODE_ENV,                \* process.env.NODE_ENV, "" when not set
    debugConfig,             \* config.debug: [enabled, filter]
    errorsToTreatAsWarnings, \* config.errorsToTreatAsWarnings
    slack,                   \* the fields of the SlackTransport instance
    customTransports,        \* config.transports, by transport name
    transports,              \* the logger's transport list, by transport name
    added,                   \* the transports handed to addTransport so far
    call,                    \* the facade call made last
    dispatched,              \* the entries that call handed to sendToTransports
    handled,                 \* the shouldHandle(level) invocations of that call
    delivered,               \* the sends of that call: what they wrote or posted
    promises,                \* the promises those sends returned, as they are
                             \* when the call returns
    threw,                   \* that call propagated an exception to its caller
    result,                  \* what isDebugModeOn returned in that call
    pc,                      \* the caller: "idle", or "returned" from call
    groups,                  \* the promise arrays handed to Promise.all so far
    diagnostics,             \* the lines console.error got from a catch block
    unhandled,               \* a rejection no handler caught has occurred
    fnInput,                 \* the arguments a utility function is applied to
    fnOutput                 \* what that application returned or raised

vars ==
    <<NODE_ENV, debugConfig, errorsToTreatAsWarnings, slack, customTransports,
      transports, added, call, dispatched, handled, delivered, promises,
      threw, result, pc, groups, diagnostics, unhandled, fnInput, fnOutput>>

\* What the facade methods other than addTransport leave alone.
configuration ==
    <<NODE_ENV, debugConfig, errorsToTreatAsWarnings, slack, customTransports,
      transports, added>>

\* The variables of the logger and of its caller.
loggerVars ==
    <<NODE_ENV, debugConfig, errorsToTreatAsWarnings, slack, customTransports,
      transports, added, call, dispatched, handled, delivered, promises,
      threw, result, pc, groups, diagnostics, unhandled>>

\* What happens after a facade call has returned.
settlement == <<groups, diagnostics, unhandled>>

----------------------------------------------------------------------------
(* utils/environment.js                                                    *)

ENVIRONMENT_PRODUCTION == "production"
ENVIRONMENT_STAGING == "staging"
ENVIRONMENT_DEVELOPMENT == "development"

\* Variant: every setting other than staging and production is development.
getEnvironmentOfThree ==
    IF NODE_ENV \in {ENVIRONMENT_STAGING, ENVIRONMENT_PRODUCTION} THEN NODE_ENV
    ELSE ENVIRONMENT_DEVELOPMENT

getEnvironment == IF NODE_ENV # "" THEN NODE_ENV ELSE ENVIRONMENT_DEVELOPMENT

isProduction == getEnvironment = ENVIRONMENT_PRODUCTION

isStaging == getEnvironment = ENVIRONMENT_STAGING

isDevelopment == getEnvironment = ENVIRONMENT_DEVELOPMENT

----------------------------------------------------------------------------
(* transports/base.js, transports/console.js                               *)

LogLevels ==
    [DEBUG |-> "debug", VERBOSE |-> "verbose", INFO |-> "info",
     WARN |-> "warn", ERROR |-> "error",
     ERROR_BACKGROUND |-> "error-background"]

\* A record of one send: console output (method, text, args) or a post to a
\* Slack webhook (webhook, channel, text, fields).
Delivery(sink, level, method, webhook, channel, text, fields, args) ==
    [sink |-> sink, level |-> level, method |-> method, webhook |-> webhook,
     channel |-> channel, text |-> text, fields |-> fields, args |-> args]

\* BaseTransport.shouldHandle, inherited by the console transport.
BaseShouldHandle(level) == TRUE

getConsoleMethod(level) ==
    CASE level = LogLevels.DEBUG -> "debug"
      [] level \in {LogLevels.VERBOSE, LogLevels.INFO} -> "info"
      [] level = LogLevels.WARN -> "warn"
      [] level \in {LogLevels.ERROR, LogLevels.ERROR_BACKGROUND} -> "error"
      [] OTHER -> "log"

\* ConsoleTransport.send: consoleMethod(message, ...args)
ConsoleSend(level, message, args) ==
    << Delivery("console", level, getConsoleMethod(level), "", Undef,
                message, NoFields, args) >>

\* Custom transports: MyTransport overrides send only and DatadogTransport
\* handles errors only, as the README writes them; "base" is a transport that
\* inherits BaseTransport.send, which always fails.
CustomTransports == {"my", "datadog", "base"}

CustomShouldHandle(name, level) ==
    IF name = "datadog"
    THEN level \in {LogLevels.ERROR, LogLevels.ERROR_BACKGROUND}
    ELSE BaseShouldHandle(level)

----------------------------------------------------------------------------
(* transports/slack.js                                                     *)

\* The levels of SlackLevels that the transport's code refers to.
SlackLevels ==
    [VERBOSE |-> "verbose", INFO |-> "info", WARN |-> "warn",
     ERROR |-> "error", ERROR_BACKGROUND |-> "error-bg"]

\* The keys a channels configuration carries.
ChannelKeys == {"info", "warn", "error", "error-bg"}

ERROR_FORMAT_NOTICE ==
    <<"[newline][newline][warning] *Error Format Issue*: ",
      "The error object could not be properly formatted for Slack.">>

\* Variant: info is let through to Slack as well.
SlackShouldHandleInfoToo(level) ==
    IF ~slack.enabled \/ slack.webhookUrl = "" THEN FALSE
    ELSE IF slack.skipInDevelopment /\ isDevelopment THEN FALSE
    ELSE level \in {LogLevels.INFO, LogLevels.WARN, LogLevels.ERROR,
                    LogLevels.ERROR_BACKGROUND, SlackLevels.WARN,
                    SlackLevels.ERROR, SlackLevels.ERROR_BACKGROUND}

\* Variant: the skip flag tests for "not production" instead of development.
SlackShouldHandleSkipNonProduction(level) ==
    IF ~slack.enabled \/ slack.webhookUrl = "" THEN FALSE
    ELSE IF slack.skipInDevelopment /\ ~isProduction THEN FALSE
    ELSE level \in {LogLevels.WARN, LogLevels.ERROR, LogLevels.ERROR_BACKGROUND,
                    SlackLevels.WARN, SlackLevels.ERROR,
                    SlackLevels.ERROR_BACKGROUND}

SlackShouldHandle(level) ==
    IF ~slack.enabled \/ slack.webhookUrl = "" THEN FALSE
    ELSE IF slack.skipInDevelopment /\ isDevelopment THEN FALSE
    ELSE level \in {LogLevels.WARN, LogLevels.ERROR, LogLevels.ERROR_BACKGROUND,
                    SlackLevels.WARN, SlackLevels.ERROR,
                    SlackLevels.ERROR_BACKGROUND}

mapToSlackLevel(level) ==
    CASE level = LogLevels.ERROR_BACKGROUND -> SlackLevels.ERROR_BACKGROUND
      [] level = LogLevels.ERROR -> SlackLevels.ERROR
      [] level = LogLevels.WARN -> SlackLevels.WARN
      [] level = LogLevels.INFO -> SlackLevels.INFO
      [] OTHER -> level

getWebhookUrl(level) ==
    IF level = LogLevels.WARN /\ slack.webhookUrls.warn # ""
    THEN slack.webhookUrls.warn
    ELSE IF level \in {LogLevels.ERROR, LogLevels.ERROR_BACKGROUND}
            /\ slack.webhookUrls.error # ""
    THEN slack.webhookUrls.error
    ELSE slack.webhookUrl

\* ch.startsWith('#') ? ch : `#${ch}`
WithHash(ch) == IF StartsWithHash(ch) THEN ch ELSE <<"#">> \o ch

\* this.channels[slackLevel], the empty string when there is none
ConfiguredChannel(slackLevel) ==
    IF slackLevel \in ChannelKeys THEN slack.channels[slackLevel] ELSE <<>>

\* Variant: the earlier revision of getChannel, which generated the name
\* `#${this.channelPrefix}-${envPrefix}${slackLevel}` when no channel was
\* configured.
getChannelGenerated(level, customChannel) ==
    IF Truthy(customChannel) THEN JStr(WithHash(customChannel.s))
    ELSE IF ConfiguredChannel(mapToSlackLevel(level)) # <<>>
    THEN JStr(WithHash(ConfiguredChannel(mapToSlackLevel(level))))
    ELSE JStr(<<"#", slack.channelPrefix, "-">>
              \o (IF isProduction THEN <<>> ELSE <<getEnvironment, "-">>)
              \o <<mapToSlackLevel(level)>>)

\* Undef means: no channel key in the payload, the webhook's own channel.
\* customChannel is a string or undefined here.
getChannel(level, customChannel) ==
    IF Truthy(customChannel) THEN JStr(WithHash(customChannel.s))
    ELSE IF ConfiguredChannel(mapToSlackLevel(level)) # <<>>
    THEN JStr(WithHash(ConfiguredChannel(mapToSlackLevel(level))))
    ELSE Undef

\* error?.constructor?.name
ConstructorName(error) ==
    CASE error.t = "object" -> IF error.isError THEN <<"Error">> ELSE <<"Object">>
      [] error.t = "array" -> <<"Array">>
      [] error.t = "string" -> <<"String">>
      [] error.t = "number" -> <<"Number">>
      [] error.t = "boolean" -> <<"Boolean">>
      [] OTHER -> <<>>

MAX_DEPTH == 5

\* Variant: the recursion is cut one level later.
DepthExceededLate(depth) == depth > MAX_DEPTH + 1

\* if (depth > 5)
DepthExceeded(depth) == depth > MAX_DEPTH

\* JSON.stringify(value) throws: value reaches a cycle of the heap.
RECURSIVE StringifyThrows(_, _, _)
StringifyThrows(heap, value, path) ==
    /\ value.t = "ref"
    /\ \/ value.n \in path
       \/ \E i \in 1..Len(heap[value.n].items) :
              StringifyThrows(heap, heap[value.n].items[i], path \cup {value.n})

\* What sanitizeValue and the loops around it give back: the value or values
\* returned, the heap with the arrays and objects created, the seen-set, and
\* the greatest depth at which a value was looked at.
Sanitized(value, heap, seen, deepest) ==
    [value |-> value, heap |-> heap, seen |-> seen, deepest |-> deepest]

Greater(a, b) == IF a >= b THEN a ELSE b

RECURSIVE sanitizeValue(_, _, _, _)
RECURSIVE sanitizeItems(_, _, _, _)

\* value.map((item) => sanitizeValue(item, depth + 1)), depth being that of
\* the items
sanitizeItems(heap, seen, items, depth) ==
    IF items = <<>> THEN Sanitized(<<>>, heap, seen, 0)
    ELSE LET first == sanitizeValue(heap, seen, Head(items), depth)
             rest == sanitizeItems(first.heap, first.seen, Tail(items), depth)
         IN Sanitized(<<first.value>> \o rest.value, rest.heap, rest.seen,
                      Greater(first.deepest, rest.deepest))

sanitizeValue(heap, seen, value, depth) ==
    IF DepthExceeded(depth) THEN Sanitized(JStr(<<"[Max depth reached]">>), heap, seen, 0)
    ELSE IF value.t \in {"null", "undefined"}
    THEN Sanitized(value, heap, seen, depth)
    ELSE IF TypeOf(value) \in {"string", "number", "boolean"}
    THEN Sanitized(value, heap, seen, depth)
    ELSE IF value.t = "ref" /\ heap[value.n].kind = "array"
    THEN LET mapped == sanitizeItems(heap, seen, heap[value.n].items, depth + 1)
         IN Sanitized(Ref(Len(mapped.heap) + 1),
                      Append(mapped.heap, Node("array", mapped.value)),
                      mapped.seen, Greater(depth, mapped.deepest))
    ELSE IF value.t = "ref"
    THEN (IF value.n \in seen
          THEN Sanitized(JStr(<<"[Circular Reference]">>), heap, seen, depth)
          ELSE IF ~StringifyThrows(heap, value, {})
          THEN Sanitized(value, heap, seen \cup {value.n}, depth)
          ELSE IF heap[value.n].kind = "error"
          THEN Sanitized(Ref(Len(heap) + 1),
                         Append(heap, Node("object",
                                           <<JStr(<<"Error">>), JStr(<<"boom">>),
                                             JStr(<<"stack">>)>>)),
                         seen \cup {value.n}, depth)
          ELSE Sanitized(JStr(<<"[Non-serializable ", "Object", "]">>), heap,
                         seen \cup {value.n}, depth))
    ELSE IF TypeOf(value) = "object" THEN Sanitized(value, heap, seen, depth)
    ELSE Sanitized(JStr(JSString(value)), heap, seen, depth)

\* for (const [key, value] of Object.entries(fields))
\*     sanitized[key] = sanitizeValue(value)
RECURSIVE sanitizeEntries(_, _, _, _)
sanitizeEntries(heap, seen, keys, fields) ==
    IF keys = <<>> THEN Sanitized(NoFields, heap, seen, 0)
    ELSE IF ~Has(fields, Head(keys))
    THEN sanitizeEntries(heap, seen, Tail(keys), fields)
    ELSE LET first == sanitizeValue(heap, seen, fields[Head(keys)], 0)
             rest == sanitizeEntries(first.heap, first.seen, Tail(keys), fields)
         IN Sanitized(With(rest.value, Head(keys), first.value), rest.heap,
                      rest.seen, Greater(first.deepest, rest.deepest))

\* Variant: the seen-set of the previous call is used again.
NewSeenCarriedOver(left) == left

\* const seen = new WeakSet(): whatever an earlier call left in its set, this
\* call starts from the empty one.
NewSeen(left) == {}

\* Variant: the environment field is sanitized with a seen-set of its own.
sanitizeFieldsSeenPerField(heap, fields, left) ==
    LET others == sanitizeEntries(heap, {},
                      SelectSeq(FieldOrder, LAMBDA k : k # "environment"),
                      fields)
        last == sanitizeEntries(others.heap, {}, <<"environment">>, fields)
    IN Sanitized(With(others.value, "environment", last.value["environment"]),
                 last.heap, others.seen \cup last.seen,
                 Greater(others.deepest, last.deepest))

\* sanitizeFields(fields) on fields whose arrays and objects are in heap;
\* left is the seen-set the previous call ended with.
sanitizeFields(heap, fields, left) ==
    sanitizeEntries(heap, NewSeen(left), FieldOrder, fields)

\* The fields of the payload when the error format is invalid.
FormatIssueFields(finalFields, message, fields, error) ==
    LET f1 == With(finalFields, "errorFormatIssue",
                   IF Truthy(fields["errorFormatError"])
                   THEN fields["errorFormatError"]
                   ELSE JStr(<<"Unknown format issue">>))
        f2 == With(f1, "originalMessage", message)
        f3 == With(f2, "errorType",
                   IF ConstructorName(error) # <<>>
                   THEN JStr(ConstructorName(error))
                   ELSE JStr(<<TypeOf(AsPrim(error))>>))
        f4 == WithIf(f3, "errorRawValue", fields["errorRawValue"])
        f5 == WithIf(f4, "errorRawMessage", fields["errorRawMessage"])
        f6 == WithIf(f5, "errorRawReason", fields["errorRawReason"])
    IN WithIf(f6, "errorRawDetails", fields["errorRawDetails"])

\* SlackTransport.send up to and including the post to the webhook: the
\* sequence of posts made (none or one).
SlackSend(level, message, fields, error, customChannel) ==
    IF ~SlackShouldHandle(level) THEN <<>>
    ELSE LET hasInvalidErrorFormat == fields["errorFormatInvalid"] = JBool(TRUE)
             rewrite == hasInvalidErrorFormat /\ Truthy(AsPrim(error))
             baseFields == Spread(WithIf(NoFields, "appName", slack.appName), fields)
             finalMessage ==
                 IF rewrite
                 THEN JStr(JSString(message) \o ERROR_FORMAT_NOTICE)
                 ELSE message
             finalFields ==
                 IF rewrite
                 THEN FormatIssueFields(baseFields, message, fields, error)
                 ELSE baseFields
         IN << Delivery("slack", level, "", getWebhookUrl(level),
                        getChannel(level, customChannel), finalMessage,
                        sanitizeFields(<<>>, finalFields, {}).value, <<>>) >>

----------------------------------------------------------------------------
(* logger.js: helpers                                                      *)

\* Regular expressions are modelled on patterns made of letters, "." (any
\* character) and "(": a pattern holding "(" has an unterminated group and
\* new RegExp throws a SyntaxError on it.
ValidRegExp(pattern) == \A i \in 1..Len(pattern) : pattern[i] # "("

\* Case folding of the 'i' flag.
Lower(c) == CASE c = "A" -> "a" [] c = "B" -> "b" [] OTHER -> c

\* text.match(new RegExp(pattern, 'i')) finds a match
RegExpMatchI(pattern, text) ==
    \E i \in 0..(Len(text) - Len(pattern)) :
        \A j \in 1..Len(pattern) :
            pattern[j] = "." \/ Lower(pattern[j]) = Lower(text[i + j])

\* Variant: the regular expression is built without the 'i' flag.
MatchFilterCaseSensitive(f, filterText) ==
    IF filterText.t # "string" THEN "throw"
    ELSE IF ValidRegExp(f)
    THEN (IF \E i \in 0..(Len(filterText.s) - Len(f)) :
                 \A j \in 1..Len(f) : f[j] = "." \/ f[j] = filterText.s[i + j]
          THEN "true" ELSE "false")
    ELSE (IF Includes(filterText.s, f) THEN "true" ELSE "false")

\* try { filterText.match(new RegExp(f, 'i')) } catch { filterText.includes(f) }
\* A filterText that is no string has neither method: the catch block throws.
MatchFilter(f, filterText) ==
    IF filterText.t # "string" THEN "throw"
    ELSE IF ValidRegExp(f)
    THEN (IF RegExpMatchI(f, filterText.s) THEN "true" ELSE "false")
    ELSE (IF Includes(filterText.s, f) THEN "true" ELSE "false")

\* filter.filter(Boolean).some(...)
RECURSIVE SomeFilter(_, _)
SomeFilter(filters, filterText) ==
    IF filters = <<>> THEN "false"
    ELSE IF Head(filters) = <<>> THEN SomeFilter(Tail(filters), filterText)
    ELSE IF MatchFilter(Head(filters), filterText) # "false"
    THEN MatchFilter(Head(filters), filterText)
    ELSE SomeFilter(Tail(filters), filterText)

\* filter is [kind, pats]: kind "none" (no filter), "string" (pats holds the
\* one pattern) or "array".  The answer is "true", "false" or "throw".
isDebugAllowed(debugEnabled, filter, filterText) ==
    IF ~debugEnabled THEN "false"
    ELSE IF filter.kind = "none" \/ (filter.kind = "string" /\ filter.pats[1] = <<>>)
            \/ ~Truthy(filterText)
    THEN "true"
    ELSE IF filter.kind = "string" THEN MatchFilter(filter.pats[1], filterText)
    ELSE SomeFilter(filter.pats, filterText)

validateErrorArgs(args) == ~(Len(args) = 0 \/ Len(args) > 2)

\* args[i] of a rest-parameter list (i counted from 0), undefined past its end
ArgAt(args, i) == IF i >= 0 /\ i + 1 <= Len(args) THEN args[i + 1] ELSE UndefArg

\* args.slice(1)
Slice1(args) == IF Len(args) <= 1 THEN <<>> ELSE Tail(args)

ShouldHandle(name, level) ==
    IF name = "slack" THEN SlackShouldHandle(level)
    ELSE IF name \in CustomTransports THEN CustomShouldHandle(name, level)
    ELSE BaseShouldHandle(level)

\* transport.send(entry): sendToTransports passes no customChannel.  What a
\* custom transport's send({level, message, args, fields, error}) delivers is
\* the record of the entry it was invoked with.
TransportSend(name, entry) ==
    IF name = "slack"
    THEN SlackSend(entry.level, entry.message, entry.fields, entry.error, Undef)
    ELSE IF name \in CustomTransports
    THEN << Delivery(name, entry.level, "", "", Undef, entry.message,
                     entry.fields, entry.args) >>
    ELSE ConsoleSend(entry.level, entry.message, entry.args)

\* Variant: send is called on every transport of the list.
RECURSIVE SendAllUnfiltered(_, _)
SendAllUnfiltered(names, entry) ==
    IF names = <<>> THEN <<>>
    ELSE TransportSend(Head(names), entry) \o SendAllUnfiltered(Tail(names), entry)

RECURSIVE SendAll(_, _)
SendAll(names, entry) ==
    IF names = <<>> THEN <<>>
    ELSE (IF ShouldHandle(Head(names), entry.level)
          THEN TransportSend(Head(names), entry) ELSE <<>>)
         \o SendAll(Tail(names), entry)

\* The promise transport.send returns, as it is when sendToTransports
\* returns: an async function that awaits the remote service is pending, one
\* that awaits nothing has completed, BaseTransport.send has thrown.
\* Variant: every send has completed when sendToTransports returns.
SendPromiseAwaited(name) ==
    CASE name = "base" -> "rejected"
      [] OTHER -> "fulfilled"

SendPromise(name) ==
    CASE name = "console" -> "fulfilled"
      [] name = "base" -> "rejected"
      [] OTHER -> "pending"

\* The message of the Error a failed send rejects with: the Error thrown by
\* BaseTransport.send, the TypeError raised in the catch block of
\* SlackTransport.send, the Error of a custom transport's failed request.
RejectionOf(name) ==
    IF name = "base" THEN <<"send() must be implemented by subclass">>
    ELSE IF name = "slack" THEN <<"err?.toString is not a function">>
    ELSE <<"fetch failed">>

\* console.error(`[Logger] Transport error: ${errorMessage}`, ...)
TransportErrorLine(message) ==
    [by |-> "sendToTransports", text |-> <<"[Logger] Transport error: ">> \o message]

\* console.error(`[Logger] Failed to send to Slack: ${errorMessage}`, ...)
SlackFailureLine(message) ==
    [by |-> "SlackTransport.send",
     text |-> <<"[Logger] Failed to send to Slack: ">> \o message]

\* Variant: Promise.all(promises) without the catch.
Uncaught(message) == [lines |-> {}, unhandled |-> TRUE]

\* Promise.all(promises).catch(err => console.error(...)): the rejection is
\* handled.
Caught(message) == [lines |-> {TransportErrorLine(message)}, unhandled |-> FALSE]

\* What a facade call leaves behind.
Outcome(d, h, s, t, r) ==
    [dispatched |-> d, handled |-> h, delivered |-> s, promises |-> <<>>,
     threw |-> t, result |-> r]

NoDispatch == Outcome(<<>>, <<>>, <<>>, FALSE, "none")

Thrown == Outcome(<<>>, <<>>, <<>>, TRUE, "none")

\* sendToTransports: every transport is asked shouldHandle(level), then send
\* is called on the eligible ones, in list order, with the entry whose fields
\* are {...fields, ...extractErrorFields(error)}.
sendToTransports(level, message, args, fields, error) ==
    LET entry == [level |-> level, message |-> message, args |-> args,
                  fields |-> Spread(fields, extractErrorFields(error)),
                  error |-> error]
    IN [Outcome(<<entry>>,
                [i \in 1..Len(transports) |->
                    [sink |-> transports[i], level |-> level,
                     ok |-> ShouldHandle(transports[i], level)]],
                SendAll(transports, entry), FALSE, "none")
        \* const promises = transports.filter(...).map(...)
        EXCEPT !.promises =
            LET eligible == SelectSeq(transports,
                                LAMBDA name : ShouldHandle(name, level))
            IN [i \in 1..Len(eligible) |->
                   [sink |-> eligible[i], state |-> SendPromise(eligible[i])]]]

----------------------------------------------------------------------------
(* logger.js: the facade methods, as functions of the argument list        *)

PropCustomChannel(a) == IF a.t = "object" THEN a.customChannel ELSE Undef

PropFields(a) == IF a.t = "object" THEN a.fields ELSE NoFields

\* log(...args) with level 'log', info(...args) with LogLevels.INFO
LogOp(level, args) ==
    sendToTransports(level, AsPrim(ArgAt(args, 0)), Slice1(args), NoFields,
                     UndefArg)

WarnOp(args) ==
    LET second == ArgAt(args, 1)
        error == IF second.t = "object" /\ second.isError THEN second ELSE UndefArg
        options == ArgAt(args, Len(args) - 1)
    IN sendToTransports(LogLevels.WARN, AsPrim(ArgAt(args, 0)), Slice1(args),
                        With(PropFields(options), "customChannel",
                             PropCustomChannel(options)),
                        error)

\* The body shared by error() and errorBackground(): they differ in the
\* suffix of a demoted message, in the level and in the fields of an entry
\* that is not demoted.
ErrorLikeOp(args, suffix, level, fields) ==
    LET message == AsPrim(ArgAt(args, 0))
        error == ArgAt(args, 1)
        asWarning == IF Truthy(AsPrim(error))
                     THEN shouldTreatAsWarning(error, errorsToTreatAsWarnings)
                     ELSE "false"
    IN IF ~validateErrorArgs(args) /\ isDevelopment THEN NoDispatch
       ELSE IF asWarning = "throw" THEN Thrown
       ELSE IF asWarning = "true"
       THEN sendToTransports(LogLevels.WARN, JStr(JSString(message) \o suffix),
                             <<error>>, NoFields, error)
       ELSE sendToTransports(level, message,
                             IF Truthy(AsPrim(error)) THEN <<error>> ELSE <<>>,
                             fields, error)

ErrorOp(args) ==
    ErrorLikeOp(args, <<" [error treated as warn]">>, LogLevels.ERROR, NoFields)

\* Variant: errorBackground passes no fields.
ErrorBackgroundOpUntagged(args) ==
    ErrorLikeOp(args, <<" [background error treated as warn]">>,
                LogLevels.ERROR_BACKGROUND, NoFields)

ErrorBackgroundOp(args) ==
    ErrorLikeOp(args, <<" [background error treated as warn]">>,
                LogLevels.ERROR_BACKGROUND,
                With(NoFields, "isBackground", JBool(TRUE)))

DebugOp(args) ==
    LET allowed == isDebugAllowed(debugConfig.enabled, debugConfig.filter,
                                  AsPrim(ArgAt(args, 0)))
    IN IF allowed = "throw" THEN Thrown
       ELSE IF allowed = "true"
       THEN sendToTransports(LogLevels.DEBUG, AsPrim(ArgAt(args, 0)),
                             Slice1(args), NoFields, UndefArg)
       ELSE NoDispatch

IsDebugModeOnOp(filterText) ==
    LET allowed == isDebugAllowed(debugConfig.enabled, debugConfig.filter,
                                  filterText)
    IN IF allowed = "throw" THEN Thrown
       ELSE Outcome(<<>>, <<>>, <<>>, FALSE, allowed)

\* sendToSlack({message, fields = {}, level = LogLevels.INFO, customChannel}):
\* level "" stands for a params object without a level.
SendToSlackOp(message, fields, level, customChannel) ==
    IF \E i \in 1..Len(transports) : transports[i] = "slack"
    THEN Outcome(<<>>, <<>>,
                 SlackSend(IF level = "" THEN LogLevels.INFO ELSE level,
                           message, fields, UndefArg, customChannel),
                 FALSE, "none")
    ELSE NoDispatch

----------------------------------------------------------------------------
(* Inputs                                                                  *)

Msg == PrimArg(JStr(<<"msg">>))

ExtraArg == PrimArg(JStr(<<"extra">>))

\* n further positional arguments
Extras(n) == [i \in 1..n |-> ExtraArg]

StrUserNotFound == <<"User", " ", "not", " ", "found">>

\* Values passed as the error argument: Error instances, the shapes the
\* README documents as valid (message / reason / details a string or a
\* number, stack a string), the shapes it lists as invalid, and non-objects.
ErrorValues ==
    { ErrorArg(<<"boom">>),
      ErrorArg(StrUserNotFound),
      ErrorArg(<<"x", ":", " ", "Timeout", "!">>),
      ObjArg(JStr(<<"Validation failed">>), JStr(<<"Load", " ", "failed">>),
             JStr(<<"details">>), JStr(<<"stack">>)),
      ObjArg(JStr(<<"Connection timeout">>), Undef, Undef, Undef),
      ObjArg(JNum(MaxNumber), Undef, Undef, Undef),
      ObjArg(JNum(MaxNumber), JStr(StrUserNotFound), Undef, Undef),
      ObjArg(JStr(<<"Timeout">>), JNum(7), Undef, Undef),
      ObjArg(JStr(StrUserNotFound), JNum(7), Undef, Undef),
      ObjArg(JNum(0), JStr(<<"Timeout">>), JNum(MaxNumber), Undef),
      ObjArg(JObj, Undef, Undef, Undef),
      ObjArg(Null, Undef, Undef, Undef),
      ObjArg(Undef, JArr(<<>>), Undef, Undef),
      ObjArg(JArr(<<"Timeout">>), Undef, JBool(TRUE), Undef),
      ObjArg(Undef, Undef, Undef, JNum(123)),
      ObjArg(Undef, Undef, Undef, Undef),
      PrimArg(JStr(<<"string error">>)),
      PrimArg(JStr(<<>>)),
      PrimArg(JNum(MaxNumber)),
      PrimArg(JNum(0)),
      PrimArg(JBool(TRUE)),
      PrimArg(JBool(FALSE)),
      PrimArg(Null),
      PrimArg(Undef) }

\* Argument lists of error() and errorBackground(): 0 to MaxArgs arguments.
ErrorCallArgs ==
    {<<>>, <<Msg>>}
    \cup {<<Msg, e>> \o Extras(n) : e \in ErrorValues, n \in 0..(MaxArgs - 2)}

\* Argument lists of log() and info().
LogCallArgs == {<<>>} \cup {<<Msg>> \o Extras(n) : n \in 0..(MaxArgs - 1)}

UserFields == With(NoFields, "userId", JStr(<<"123">>))

WarnOptions ==
    { OptionsArg(JStr(<<"a", "l">>), UserFields),
      OptionsArg(JStr(<<"#", "a", "l">>), NoFields),
      OptionsArg(Undef, UserFields) }

\* Argument lists of warn(message, [error], [options]).
WarnCallArgs ==
    {<<>>, <<Msg>>, <<Msg, ErrorArg(<<"slow">>)>>,
     <<Msg, ObjArg(JStr(<<"plain">>), Undef, Undef, Undef)>>}
    \cup {<<Msg, o>> : o \in WarnOptions}
    \cup {<<Msg, ErrorArg(<<"slow">>), o>> : o \in WarnOptions}

\* First arguments of debug() and arguments of isDebugModeOn().
DebugTexts ==
    { Undef, JStr(<<>>), JStr(<<"[", "A", "b", "]">>), JStr(<<"a", "(", "b">>),
      JStr(<<"b", "b">>), JNum(7) }

DebugCallArgs ==
    {<<>>} \cup {<<PrimArg(t)>> \o Extras(n) : t \in DebugTexts, n \in 0..1}

DebugFilters ==
    { [kind |-> "none", pats |-> <<>>],
      [kind |-> "string", pats |-> << <<>> >>],
      [kind |-> "string", pats |-> << <<"a", "B">> >>],
      [kind |-> "string", pats |-> << <<"a", ".", "b">> >>],
      [kind |-> "string", pats |-> << <<"(", "b">> >>],
      [kind |-> "array", pats |-> <<>>],
      [kind |-> "array", pats |-> << <<>> >>],
      [kind |-> "array", pats |-> << <<"x">>, <<>>, <<"b", "b">> >>],
      [kind |-> "array", pats |-> << <<"(", "B">>, <<"A">> >>] }

\* The levels sendToSlack is called with; "" is a call without a level.
SlackCallLevels ==
    {"", "info", "warn", "error", "error-background", "error-bg", "debug",
     "verbose", "log"}

SlackCallChannels == {Undef, JStr(<<"d", "e">>), JStr(<<"#", "d", "e">>)}

Environments == {"", "development", "staging", "production", "test"}

NoChannels == [k \in ChannelKeys |-> <<>>]

ChannelConfigs ==
    { NoChannels,
      [NoChannels EXCEPT !["error"] = <<"#", "e">>],
      [NoChannels EXCEPT !["error"] = <<"#", "e">>, !["error-bg"] = <<"e">>],
      [NoChannels EXCEPT !["info"] = <<"#", "i">>, !["warn"] = <<"w">>,
                         !["error"] = <<"e">>, !["error-bg"] = <<"#", "b", "g">>] }

\* The fields of a SlackTransport built from a slack configuration
\* (channelPrefix is stored but read by no method).
SlackTransport(webhookUrl, warnUrl, errorUrl, channels, skip, enabled, appName) ==
    [webhookUrl |-> webhookUrl,
     webhookUrls |-> [warn |-> warnUrl, error |-> errorUrl],
     channels |-> channels, channelPrefix |-> "logs",
     skipInDevelopment |-> skip, enabled |-> enabled, appName |-> appName]

AppName == JStr(<<"my-app">>)

\* Configurations with a webhook URL: createLogger adds the Slack transport.
SlackConfigs ==
    { SlackTransport("hook", w, e, c, skip, en, AppName) :
        w \in {"", "hookWarn"}, e \in {"", "hookError"}, c \in ChannelConfigs,
        skip \in BOOLEAN, en \in BOOLEAN }
    \cup { SlackTransport("hook", "", "", NoChannels, skip, TRUE, Undef) :
             skip \in BOOLEAN }

\* No webhook URL: createLogger builds no Slack transport.
NoSlack == SlackTransport("", "", "", NoChannels, TRUE, TRUE, AppName)

DebugOff == [enabled |-> FALSE, filter |-> [kind |-> "none", pats |-> <<>>]]

DebugOn == [enabled |-> TRUE, filter |-> [kind |-> "none", pats |-> <<>>]]

PatternConfigs == {DEFAULT_WARNING_PATTERNS, <<>>, << <<"Timeout">> >>}

----------------------------------------------------------------------------
(* createLogger and the facade                                             *)

NoCall == [op |-> "none", args |-> <<>>, level |-> ""]

\* No utility function has been applied.
NoApplication == [fn |-> "none"]

\* The transport list createLogger builds: the console transport, the Slack
\* transport when a webhook URL is configured, then config.transports.
CreateTransports(slackConfig, custom) ==
    <<"console">>
    \o (IF slackConfig.webhookUrl # "" THEN <<"slack">> ELSE <<>>)
    \o custom

\* Variant: the transport is pushed onto a copy of the list.
AddTransportOpOnCopy(list, transport) == list

\* transports.push(transport)
AddTransportOp(list, transport) == Append(list, transport)

\* The state once createLogger(config) has returned, for the configurations
\* modelled: every Slack configuration with debug on or off, and every debug
\* configuration with and without a Slack transport.
Init ==
    /\ NODE_ENV \in Environments
    /\ errorsToTreatAsWarnings \in PatternConfigs
    /\ \/ /\ slack \in SlackConfigs \cup {NoSlack}
          /\ debugConfig \in {DebugOff, DebugOn}
       \/ /\ slack \in {NoSlack, SlackTransport("hook", "", "", NoChannels,
                                                FALSE, TRUE, AppName)}
          /\ errorsToTreatAsWarnings = DEFAULT_WARNING_PATTERNS
          /\ debugConfig \in [enabled : BOOLEAN, filter : DebugFilters]
    /\ customTransports = <<>>
    /\ transports = CreateTransports(slack, customTransports)
    /\ added = <<>>
    /\ fnInput = NoApplication
    /\ fnOutput = NoApplication
    /\ call = NoCall
    /\ dispatched = <<>>
    /\ handled = <<>>
    /\ delivered = <<>>
    /\ promises = <<>>
    /\ groups = <<>>
    /\ diagnostics = {}
    /\ unhandled = FALSE
    /\ threw = FALSE
    /\ result = "none"
    /\ pc = "idle"

\* The single caller makes facade call c, which runs to its return (or to the
\* exception it propagates) with outcome o; no facade method writes the
\* configuration.
Called(c, o) ==
    /\ pc = "idle"
    /\ pc' = "returned"
    /\ call' = c
    /\ dispatched' = o.dispatched
    /\ handled' = o.handled
    /\ delivered' = o.delivered
    /\ promises' = o.promises
    /\ threw' = o.threw
    /\ result' = o.result
    /\ UNCHANGED <<configuration, settlement, fnInput, fnOutput>>

Call(op, args) == [op |-> op, args |-> args, level |-> ""]

log ==
    \E args \in LogCallArgs : Called(Call("log", args), LogOp("log", args))

info ==
    \E args \in LogCallArgs :
        Called(Call("info", args), LogOp(LogLevels.INFO, args))

warn ==
    \E args \in WarnCallArgs : Called(Call("warn", args), WarnOp(args))

error ==
    \E args \in ErrorCallArgs : Called(Call("error", args), ErrorOp(args))

errorBackground ==
    \E args \in ErrorCallArgs :
        Called(Call("errorBackground", args), ErrorBackgroundOp(args))

debug ==
    \E args \in DebugCallArgs : Called(Call("debug", args), DebugOp(args))

isDebugModeOn ==
    \E t \in DebugTexts :
        Called(Call("isDebugModeOn", <<PrimArg(t)>>), IsDebugModeOnOp(t))

sendToSlack ==
    \E level \in SlackCallLevels, ch \in SlackCallChannels,
       f \in {NoFields, UserFields} :
        Called([op |-> "sendToSlack", args |-> <<Msg, OptionsArg(ch, f)>>,
                level |-> level],
               SendToSlackOp(AsPrim(Msg), f, level, ch))

\* The caller goes on to its next call; what the finished call left behind
\* is no longer looked at.
Return ==
    /\ pc = "returned"
    /\ pc' = "idle"
    /\ call' = NoCall
    /\ dispatched' = <<>>
    /\ handled' = <<>>
    /\ delivered' = <<>>
    /\ promises' = <<>>
    /\ threw' = FALSE
    /\ result' = "none"
    /\ UNCHANGED <<configuration, settlement, fnInput, fnOutput>>

Next ==
    \/ log
    \/ info
    \/ warn
    \/ error
    \/ errorBackground
    \/ debug
    \/ isDebugModeOn
    \/ sendToSlack
    \/ Return

Spec == Init /\ [][Next]_vars

----------------------------------------------------------------------------
(* The transport list: config.transports and addTransport                  *)

\* addTransport is called at most MaxAdded times.
MaxAdded == 2

\* createLogger({transports, slack}) for loggers with and without custom
\* transports and a Slack transport, in development and in production.
InitTransports ==
    /\ NODE_ENV \in {"development", "production"}
    /\ errorsToTreatAsWarnings = DEFAULT_WARNING_PATTERNS
    /\ debugConfig = DebugOn
    /\ slack \in {NoSlack, SlackTransport("hook", "", "", NoChannels,
                                         TRUE, TRUE, AppName)}
    /\ customTransports \in {<<>>, <<"datadog">>}
    /\ transports = CreateTransports(slack, customTransports)
    /\ added = <<>>
    /\ fnInput = NoApplication
    /\ fnOutput = NoApplication
    /\ call = NoCall
    /\ dispatched = <<>>
    /\ handled = <<>>
    /\ delivered = <<>>
    /\ promises = <<>>
    /\ groups = <<>>
    /\ diagnostics = {}
    /\ unhandled = FALSE
    /\ threw = FALSE
    /\ result = "none"
    /\ pc = "idle"

\* addTransport(transport): the transport is appended to the list, nothing
\* is dispatched.
addTransport ==
    \E transport \in CustomTransports :
        /\ pc = "idle"
        /\ Len(added) < MaxAdded
        /\ pc' = "returned"
        /\ call' = Call("addTransport", <<>>)
        /\ transports' = AddTransportOp(transports, transport)
        /\ added' = Append(added, transport)
        /\ dispatched' = <<>>
        /\ handled' = <<>>
        /\ delivered' = <<>>
        /\ promises' = <<>>
        /\ threw' = FALSE
        /\ result' = "none"
        /\ UNCHANGED <<NODE_ENV, debugConfig, errorsToTreatAsWarnings, slack,
                       customTransports, settlement, fnInput, fnOutput>>

\* Variant: getTransports returns the logger's own array.
GetTransportsOpSameArray(list) == [array |-> list, own |-> TRUE]

\* return [...transports]: a new array with the same transports.
GetTransportsOp(list) == [array |-> list, own |-> FALSE]

\* getTransports(): nothing is dispatched, the caller gets the array.
getTransports ==
    /\ pc = "idle"
    /\ pc' = "returned"
    /\ call' = Call("getTransports", <<>>)
    /\ result' = GetTransportsOp(transports)
    /\ dispatched' = <<>>
    /\ handled' = <<>>
    /\ delivered' = <<>>
    /\ promises' = <<>>
    /\ threw' = FALSE
    /\ UNCHANGED <<configuration, settlement, fnInput, fnOutput>>

\* The caller changes the array getTransports returned: pop(), reverse(),
\* push(transport), length = 0.  The logger's list changes with it only if
\* it is the same array.
MutateReturnedArray ==
    /\ pc = "returned"
    /\ call.op = "getTransports"
    /\ \E changed \in
           { SubSeq(result.array, 1, Len(result.array) - 1),
             [i \in 1..Len(result.array) |->
                 result.array[Len(result.array) + 1 - i]],
             Append(result.array, "my"),
             <<>> } :
          /\ changed # result.array
          /\ Len(changed) <= 3 + Len(customTransports) + MaxAdded
          /\ result' = [result EXCEPT !.array = changed]
          /\ transports' = IF result.own THEN changed ELSE transports
    /\ UNCHANGED <<NODE_ENV, debugConfig, errorsToTreatAsWarnings, slack,
                   customTransports, added, call, dispatched, handled,
                   delivered, promises, threw, pc, settlement, fnInput,
                   fnOutput>>

NextTransports ==
    \/ log
    \/ info
    \/ warn
    \/ error
    \/ errorBackground
    \/ debug
    \/ addTransport
    \/ getTransports
    \/ MutateReturnedArray
    \/ Return

SpecTransports == InitTransports /\ [][NextTransports]_vars

----------------------------------------------------------------------------
(* createLogger called again in the same process                           *)

\* The logger followed is the one created by
\* createLogger({ environment: 'production', slack: { webhookUrl } }):
\* skipInDevelopment and enabled have their defaults.
InitEnvironment ==
    /\ NODE_ENV = "production"
    /\ errorsToTreatAsWarnings = DEFAULT_WARNING_PATTERNS
    /\ debugConfig = DebugOff
    /\ slack = SlackTransport("hook", "", "", NoChannels, TRUE, TRUE, AppName)
    /\ customTransports = <<>>
    /\ transports = CreateTransports(slack, customTransports)
    /\ added = <<>>
    /\ fnInput = NoApplication
    /\ fnOutput = NoApplication
    /\ call = NoCall
    /\ dispatched = <<>>
    /\ handled = <<>>
    /\ delivered = <<>>
    /\ promises = <<>>
    /\ groups = <<>>
    /\ diagnostics = {}
    /\ unhandled = FALSE
    /\ threw = FALSE
    /\ result = "none"
    /\ pc = "idle"

\* Variant: the environment of a configuration is kept by its logger.
SetUpEnvironmentPerLogger(environment) == NODE_ENV

\* if (config.environment) { process.env.NODE_ENV = config.environment; }
SetUpEnvironment(environment) ==
    IF environment # "" THEN environment ELSE NODE_ENV

\* createLogger(config) for another logger of the process: of what it does,
\* the assignment to process.env.NODE_ENV is what the logger followed sees.
createLogger ==
    \E environment \in {"", "development", "staging", "production"} :
        /\ pc = "idle"
        /\ pc' = "returned"
        /\ call' = Call("createLogger",
                        <<PrimArg(IF environment = "" THEN Undef
                                  ELSE JStr(<<environment>>))>>)
        /\ NODE_ENV' = SetUpEnvironment(environment)
        /\ dispatched' = <<>>
        /\ handled' = <<>>
        /\ delivered' = <<>>
        /\ promises' = <<>>
        /\ threw' = FALSE
        /\ result' = "none"
        /\ UNCHANGED <<debugConfig, errorsToTreatAsWarnings, slack,
                       customTransports, transports, added, settlement,
                       fnInput, fnOutput>>

NextEnvironment ==
    \/ warn
    \/ error
    \/ errorBackground
    \/ createLogger
    \/ Return

SpecEnvironment == InitEnvironment /\ [][NextEnvironment]_vars

----------------------------------------------------------------------------
(* Properties                                                              *)

Returned(ops) == pc = "returned" /\ call.op \in ops

ErrorOps == {"error", "errorBackground"}

SlackDeliveries == SelectSeq(delivered, LAMBDA d : d.sink = "slack")

ConsoleDeliveries == SelectSeq(delivered, LAMBDA d : d.sink = "console")

HasSlackTransport == \E i \in 1..Len(transports) : transports[i] = "slack"

\* The suffix of a demoted message, per facade method.
DemotedSuffix(op) ==
    IF op = "error" THEN <<" [error treated as warn]">>
    ELSE <<" [background error treated as warn]">>

OriginalLevel(op) ==
    IF op = "error" THEN LogLevels.ERROR ELSE LogLevels.ERROR_BACKGROUND

\* A field of an error value taken as a string, empty when absent.
FieldText(v) == IF v.t \in {"undefined", "null"} THEN <<>> ELSE JSString(v)

\* Some configured pattern is a substring of the error's message or reason.
PatternInMessageOrReason(e) ==
    \E i \in 1..Len(errorsToTreatAsWarnings) :
        \/ Includes(FieldText(PropMessage(e)), errorsToTreatAsWarnings[i])
        \/ Includes(FieldText(PropReason(e)), errorsToTreatAsWarnings[i])

\* C1: a call to error(message, err) or errorBackground(message, err) returns
\* normally for every error value: no exception propagates out of the call.
ErrorCallNeverThrows == Returned(ErrorOps) => ~threw

\* An error value of invalid format, in the README's terms: a non-object
\* (a string, a number, a boolean, null) or an object with a message, reason
\* or details that is no string or number, or a stack that is no string.
WrongStringOrNumber(v) == v.t # "undefined" /\ TypeOf(v) \notin {"string", "number"}

InvalidErrorFormat(e) ==
    \/ e.t \notin {"undefined", "object"}
    \/ /\ e.t = "object"
       /\ \/ WrongStringOrNumber(e.message)
          \/ WrongStringOrNumber(e.reason)
          \/ WrongStringOrNumber(e.details)
          \/ (e.stack.t # "undefined" /\ TypeOf(e.stack) # "string")

\* text is "msg", possibly with the demotion suffix, followed by the notice.
CarriesNotice(text) ==
    /\ text.t = "string"
    /\ Len(text.s) >= 3
    /\ text.s[1] = "msg"
    /\ SubSeq(text.s, Len(text.s) - 1, Len(text.s)) = ERROR_FORMAT_NOTICE

\* C2: when error() or errorBackground() is called with an error value of
\* invalid format and the Slack transport handles the severity, an entry is
\* posted to Slack whose text is the message followed by the format notice.
InvalidFormatReachesSlackWithNotice ==
    (/\ Returned(ErrorOps)
     /\ Len(call.args) = 2
     /\ InvalidErrorFormat(call.args[2])
     /\ HasSlackTransport
     /\ SlackShouldHandle(OriginalLevel(call.op)))
    => (/\ Len(SlackDeliveries) = 1
        /\ CarriesNotice(SlackDeliveries[1].text))

\* C3: error(message, err) with a configured pattern inside err's message or
\* reason dispatches exactly one entry, at warn, with the suffixed message;
\* when no pattern matches, exactly one entry at the original severity with
\* the message unchanged.
DemotionDispatchesOneEntry ==
    (/\ Returned(ErrorOps)
     /\ Len(call.args) = 2
     /\ call.args[2].t # "undefined")
    => (/\ Len(dispatched) = 1
        /\ IF PatternInMessageOrReason(call.args[2])
           THEN /\ dispatched[1].level = LogLevels.WARN
                /\ dispatched[1].message
                     = JStr(<<"msg">> \o DemotedSuffix(call.op))
           ELSE /\ dispatched[1].level = OriginalLevel(call.op)
                /\ dispatched[1].message = JStr(<<"msg">>))

\* C4: error() and errorBackground() with zero or more than two arguments
\* dispatch nothing in development and exactly one entry elsewhere; with one
\* or two arguments they dispatch exactly one entry in every environment.
ArityDecidesDispatch ==
    Returned(ErrorOps)
    => IF Len(call.args) = 0 \/ Len(call.args) > 2
       THEN (IF isDevelopment
             THEN dispatched = <<>> /\ delivered = <<>>
             ELSE Len(dispatched) = 1)
       ELSE Len(dispatched) = 1

\* pattern matches text: case-insensitive regular-expression search, plain
\* substring containment when the pattern is no valid regular expression.
PatternMatchesText(pattern, text) ==
    /\ text.t = "string"
    /\ IF ValidRegExp(pattern) THEN RegExpMatchI(pattern, text.s)
       ELSE Includes(text.s, pattern)

\* The predicate as the claim words it: debug mode is enabled and no filter
\* is configured, or filterText is absent, or the configured pattern -- or at
\* least one pattern of a configured set -- matches filterText.
DebugPredicateAsClaimed(text) ==
    /\ debugConfig.enabled
    /\ \/ debugConfig.filter.kind = "none"
       \/ text.t = "undefined"
       \/ \E i \in 1..Len(debugConfig.filter.pats) :
              PatternMatchesText(debugConfig.filter.pats[i], text)

\* The predicate as amended: an empty filterText counts as absent and the
\* empty entries of a configured set are no patterns.
DebugPredicate(text) ==
    /\ debugConfig.enabled
    /\ \/ debugConfig.filter.kind = "none"
       \/ text.t = "undefined"
       \/ text = JStr(<<>>)
       \/ /\ debugConfig.filter.kind = "string"
          /\ PatternMatchesText(debugConfig.filter.pats[1], text)
       \/ /\ debugConfig.filter.kind = "array"
          /\ \E i \in 1..Len(debugConfig.filter.pats) :
                 /\ debugConfig.filter.pats[i] # <<>>
                 /\ PatternMatchesText(debugConfig.filter.pats[i], text)

\* filterText is a string or absent, as the facade documents it.
DocumentedFilterText(text) == text.t \in {"string", "undefined"}

\* What C5 says of a debug() or isDebugModeOn() call, for the predicate P.
DebugFollows(P(_)) ==
    /\ (Returned({"debug"}) /\ DocumentedFilterText(AsPrim(ArgAt(call.args, 0))))
       => /\ ~threw
          /\ IF P(AsPrim(ArgAt(call.args, 0)))
             THEN /\ Len(dispatched) = 1
                  /\ dispatched[1].level = LogLevels.DEBUG
             ELSE dispatched = <<>>
          /\ ~debugConfig.enabled => (handled = <<>> /\ delivered = <<>>)
    /\ (Returned({"isDebugModeOn"}) /\ DocumentedFilterText(AsPrim(call.args[1])))
       => result = (IF P(AsPrim(call.args[1])) THEN "true" ELSE "false")

\* C5 as stated: debug(filterText, ...args) dispatches one entry at debug iff
\* debug mode is enabled and (no filter is configured, or filterText is
\* absent, or a configured pattern matches filterText); with debug mode off
\* no transport is touched; isDebugModeOn returns this predicate.
DebugDispatchesIffClaimedPredicate == DebugFollows(DebugPredicateAsClaimed)

\* C5 as amended: the same, where an empty filterText counts as absent and
\* only the non-empty entries of a configured set are patterns.
DebugDispatchesIffPredicate == DebugFollows(DebugPredicate)

\* C5 witness: debug() with a filter set and a non-empty filterText that a
\* pattern matches only when case is ignored has dispatched its entry.
DebugMatchedWitness ==
    /\ Returned({"debug"})
    /\ debugConfig.filter.kind = "string"
    /\ debugConfig.filter.pats[1] = <<"a", "B">>
    /\ AsPrim(ArgAt(call.args, 0)) = JStr(<<"[", "A", "b", "]">>)
    /\ Len(dispatched) = 1

\* The severities the Slack transport must never post.
ConsoleOnlyLevels == {"log", LogLevels.INFO, LogLevels.DEBUG, LogLevels.VERBOSE}

\* C6: the Slack transport posts nothing for an entry at log, info, debug or
\* verbose, in every configuration and environment; log(), info() and a
\* dispatching debug() reach the console and never Slack.
SlackNeverPostsConsoleOnlyLevels ==
    /\ \A i \in 1..Len(delivered) :
           delivered[i].sink = "slack" => delivered[i].level \notin ConsoleOnlyLevels
    /\ (Returned({"log", "info", "debug"}) /\ dispatched # <<>>)
       => (Len(ConsoleDeliveries) = 1 /\ SlackDeliveries = <<>>)

\* C6 witness: info() has returned in a configuration whose Slack transport
\* handles warnings, having written to the console only.
InfoWithLiveSlackWitness ==
    /\ Returned({"info"})
    /\ HasSlackTransport
    /\ SlackShouldHandle(LogLevels.WARN)
    /\ Len(ConsoleDeliveries) = 1

\* The per-call channel of a warn(message, error, options) call.
WarnCustomChannel == PropCustomChannel(ArgAt(call.args, Len(call.args) - 1))

\* C7: the entry of warn(message, error, {customChannel: c}) is posted to
\* channel c (with a leading '#'), whatever channel is configured for warn.
WarnCustomChannelRoutes ==
    (/\ Returned({"warn"})
     /\ Truthy(WarnCustomChannel)
     /\ HasSlackTransport
     /\ SlackShouldHandle(LogLevels.WARN))
    => (/\ Len(SlackDeliveries) = 1
        /\ SlackDeliveries[1].channel = JStr(WithHash(WarnCustomChannel.s)))

\* C8: sendToSlack bypasses severity gating: for every level, the default
\* info included, with a Slack transport that is configured, enabled and not
\* skipped for the environment, the message is posted with the caller's
\* fields and channel.
SendToSlackAlwaysPosts ==
    (/\ Returned({"sendToSlack"})
     /\ HasSlackTransport
     /\ slack.enabled
     /\ ~(slack.skipInDevelopment /\ isDevelopment))
    => (/\ Len(SlackDeliveries) = 1
        /\ SlackDeliveries[1].text = AsPrim(call.args[1])
        /\ SlackDeliveries[1].fields["userId"] = call.args[2].fields["userId"]
        /\ Truthy(call.args[2].customChannel)
           => SlackDeliveries[1].channel
                = JStr(WithHash(call.args[2].customChannel.s)))

\* C9: an entry of errorBackground("msg", err) that is not demoted lands in
\* a Slack destination (webhook and channel) other than the one an entry of
\* error("msg", err) lands in.
BackgroundDestinationDistinct ==
    (/\ Returned({"errorBackground"})
     /\ Len(call.args) = 2
     /\ Truthy(AsPrim(call.args[2]))
     /\ Len(SlackDeliveries) = 1
     /\ SlackDeliveries[1].level = LogLevels.ERROR_BACKGROUND)
    => <<SlackDeliveries[1].webhook, SlackDeliveries[1].channel>>
         # <<getWebhookUrl(LogLevels.ERROR), getChannel(LogLevels.ERROR, Undef)>>

\* The severities of the facade.
Severities ==
    {"log", LogLevels.INFO, LogLevels.WARN, LogLevels.ERROR,
     LogLevels.ERROR_BACKGROUND, LogLevels.DEBUG, LogLevels.VERBOSE}

RemoteLevels == {LogLevels.WARN, LogLevels.ERROR, LogLevels.ERROR_BACKGROUND}

\* C10 as stated: with the skip flag set, outside production the Slack
\* transport's shouldHandle answers false for every severity it is asked
\* about and no facade call posts to Slack.
SkipFlagSilencesNonProduction ==
    (slack.skipInDevelopment /\ ~isProduction)
    => (/\ \A i \in 1..Len(handled) :
               handled[i].sink = "slack" => ~handled[i].ok
        /\ SlackDeliveries = <<>>)

\* C10 as amended: with the skip flag set, the Slack transport handles no
\* severity and nothing is posted when the environment is development (the
\* setting absent or "development"); in every other environment (staging,
\* production, any other value) an enabled transport with a webhook URL
\* handles exactly warn, error and error-background.
SkipFlagSilencesDevelopmentOnly ==
    slack.skipInDevelopment
    => IF isDevelopment
       THEN /\ \A sev \in Severities : ~SlackShouldHandle(sev)
            /\ SlackDeliveries = <<>>
            /\ \A i \in 1..Len(handled) :
                   handled[i].sink = "slack" => ~handled[i].ok
       ELSE /\ \A sev \in Severities :
                   SlackShouldHandle(sev)
                     <=> (slack.enabled /\ slack.webhookUrl # ""
                          /\ sev \in RemoteLevels)
            /\ \A i \in 1..Len(handled) :
                   handled[i].sink = "slack"
                   => (handled[i].ok
                         <=> (slack.enabled /\ handled[i].level \in RemoteLevels))

\* C10 witness: in staging, with the skip flag set, error() has posted its
\* entry to Slack.
StagingPostsWitness ==
    /\ Returned({"error"})
    /\ NODE_ENV = "staging"
    /\ slack.skipInDevelopment
    /\ Len(SlackDeliveries) = 1

----------------------------------------------------------------------------
(* After the call: the sends complete or fail, Promise.all(...).catch runs *)

\* At most MaxDispatches promise arrays are followed after their call has
\* returned; the call in progress has its own.
MaxDispatches == 1

\* Loggers in production with and without a Slack transport, and with
\* custom transports of which one always fails.
InitDelivery ==
    /\ NODE_ENV = "production"
    /\ errorsToTreatAsWarnings = DEFAULT_WARNING_PATTERNS
    /\ debugConfig = DebugOn
    /\ slack \in {NoSlack, SlackTransport("hook", "", "", NoChannels,
                                         TRUE, TRUE, AppName)}
    /\ customTransports \in {<<>>, <<"base", "my">>}
    /\ transports = CreateTransports(slack, customTransports)
    /\ added = <<>>
    /\ fnInput = NoApplication
    /\ fnOutput = NoApplication
    /\ call = NoCall
    /\ dispatched = <<>>
    /\ handled = <<>>
    /\ delivered = <<>>
    /\ promises = <<>>
    /\ groups = <<>>
    /\ diagnostics = {}
    /\ unhandled = FALSE
    /\ threw = FALSE
    /\ result = "none"
    /\ pc = "idle"

\* The facade call returns to its caller while Promise.all(promises).catch
\* stays registered on the promises of the call.
ReturnPending ==
    /\ pc = "returned"
    /\ Len(groups) < MaxDispatches
    /\ pc' = "idle"
    /\ groups' = IF promises = <<>> THEN groups
                 ELSE Append(groups, [promises |-> promises, reported |-> FALSE])
    /\ call' = NoCall
    /\ dispatched' = <<>>
    /\ handled' = <<>>
    /\ delivered' = <<>>
    /\ promises' = <<>>
    /\ threw' = FALSE
    /\ result' = "none"
    /\ UNCHANGED <<configuration, diagnostics, unhandled, fnInput, fnOutput>>

Rejected(g) ==
    {i \in 1..Len(groups[g].promises) : groups[g].promises[i].state = "rejected"}

\* A promise array holds a rejection its catch handler has not run for yet.
ReportDue(g) == ~groups[g].reported /\ Rejected(g) # {}

\* The remote service answers or fails, and the pending send completes: a
\* failure inside a custom transport's send rejects its promise with an
\* Error; what slack.send(data) fails with (an Error, null, or an object
\* without message, name, stack and toString) is caught inside
\* SlackTransport.send, whose catch block logs
\* err?.message || err?.toString() || String(err) || 'Unknown error' and so
\* raises a TypeError itself when err has no toString to call.  Handlers of
\* rejections that have already occurred run first.
Settle ==
    \E g \in 1..Len(groups) :
        \E i \in 1..Len(groups[g].promises),
           thrown \in {NotThrown, ThrownError(<<"fetch failed">>),
                       [kind |-> "nullish", message |-> <<"null">>],
                       [kind |-> "bare", message |-> <<>>]} :
            LET sink == groups[g].promises[i].sink
                ok == thrown.kind = "none"
                catchRaises == thrown.kind = "bare"
            IN /\ pc = "idle"
               /\ \A h \in 1..Len(groups) : ~ReportDue(h)
               /\ groups[g].promises[i].state = "pending"
               /\ sink # "slack" => thrown.kind \in {"none", "error"}
               /\ groups' = [groups EXCEPT ![g].promises[i].state =
                                IF ok \/ (sink = "slack" /\ ~catchRaises)
                                THEN "fulfilled"
                                ELSE "rejected"]
               /\ diagnostics' =
                     IF ~ok /\ sink = "slack" /\ ~catchRaises
                     THEN diagnostics \cup {SlackFailureLine(thrown.message)}
                     ELSE diagnostics
               /\ UNCHANGED <<configuration, call, dispatched, handled,
                              delivered, promises, threw, result, pc,
                              unhandled, fnInput, fnOutput>>

\* Promise.all rejects with the first rejection of the array and the catch
\* handler of sendToTransports runs.
Report ==
    \E g \in 1..Len(groups) :
        /\ pc = "idle"
        /\ ReportDue(g)
        /\ LET first == CHOOSE i \in Rejected(g) : \A j \in Rejected(g) : i <= j
               handler == Caught(RejectionOf(groups[g].promises[first].sink))
           IN /\ diagnostics' = diagnostics \cup handler.lines
              /\ unhandled' = (unhandled \/ handler.unhandled)
        /\ groups' = [groups EXCEPT ![g].reported = TRUE]
        /\ UNCHANGED <<configuration, call, dispatched, handled, delivered,
                       promises, threw, result, pc, fnInput, fnOutput>>

NextDelivery ==
    \/ info
    \/ warn
    \/ ReturnPending
    \/ Settle
    \/ Report

SpecDelivery == InitDelivery /\ [][NextDelivery]_vars

----------------------------------------------------------------------------
(* utils/errors.js applied to any value                                    *)

\* A caller of the utility functions, without a logger.  The values they
\* are applied to: the arguments of the facade's error methods, objects whose
\* message, reason, details and stack are of any type, objects with a getter
\* that throws (an Error, a string, or null), objects that cannot be
\* converted to a string, and objects with both defects.
InitErrors ==
    /\ LET FieldValues ==
               {Undef, Null, JStr(<<>>), JStr(<<"x", "Timeout">>), JNum(7),
                JBool(TRUE), JObj, JArr(<<"Timeout">>), Bare}
           DetailsValues == {Undef, JStr(<<"details">>), JNum(0), JObj}
           StackValues == {Undef, JStr(<<"stack">>), JNum(7)}
           HostileValues ==
               { HostileArg(o, on, thrown, bare) :
                   o \in {ObjArg(Undef, Undef, Undef, Undef),
                          ObjArg(JStr(<<"boom">>), JObj, Undef, Undef)},
                   on \in {"message", "reason", "details", "stack"},
                   thrown \in {ThrownError(<<"boom">>),
                               [kind |-> "string", message |-> <<>>],
                               [kind |-> "nullish", message |-> <<>>]},
                   bare \in BOOLEAN }
               \cup { HostileArg(ObjArg(m, Undef, Undef, Undef), "none",
                                 NotThrown, TRUE) :
                        m \in {Undef, JStr(<<"boom">>), JObj, Bare} }
           UtilityInputs ==
               ErrorValues \cup HostileValues
               \cup { ObjArg(m, r, d, st) :
                        m \in FieldValues, r \in FieldValues,
                        d \in DetailsValues, st \in StackValues }
       IN fnInput \in [error : UtilityInputs, patterns : PatternConfigs]
    /\ fnOutput = NoApplication
    /\ NODE_ENV = ""
    /\ errorsToTreatAsWarnings = DEFAULT_WARNING_PATTERNS
    /\ debugConfig = DebugOff
    /\ slack = NoSlack
    /\ customTransports = <<>>
    /\ transports = CreateTransports(slack, customTransports)
    /\ added = <<>>
    /\ call = NoCall
    /\ dispatched = <<>>
    /\ handled = <<>>
    /\ delivered = <<>>
    /\ promises = <<>>
    /\ groups = <<>>
    /\ diagnostics = {}
    /\ unhandled = FALSE
    /\ threw = FALSE
    /\ result = "none"
    /\ pc = "idle"

\* extractErrorFields(error) returns a fields mapping or raises.
ApplyExtractErrorFields ==
    /\ fnOutput = NoApplication
    /\ fnOutput' =
          [fn |-> "extractErrorFields",
           raised |-> ExtractionRaises(fnInput.error),
           fields |-> IF ExtractionRaises(fnInput.error) THEN NoFields
                      ELSE extractErrorFields(fnInput.error),
           answer |-> "none"]
    /\ UNCHANGED <<loggerVars, fnInput>>

\* shouldTreatAsWarning(error, patterns) returns true or false, or raises.
ApplyShouldTreatAsWarning ==
    /\ fnOutput = NoApplication
    /\ LET answer == shouldTreatAsWarning(fnInput.error, fnInput.patterns)
       IN fnOutput' =
              [fn |-> "shouldTreatAsWarning", raised |-> answer = "throw",
               fields |-> NoFields, answer |-> answer]
    /\ UNCHANGED <<loggerVars, fnInput>>

NextErrors ==
    \/ ApplyExtractErrorFields
    \/ ApplyShouldTreatAsWarning

SpecErrors == InitErrors /\ [][NextErrors]_vars

----------------------------------------------------------------------------
(* SlackTransport.sanitizeFields applied to nested and cyclic fields       *)

\* Arrays are nested up to MaxNest levels.
MaxNest == 7

\* Fields { version, environment } over a heap: each a string or one of the
\* first two nodes, environment possibly missing.  The heaps are every heap
\* of two nodes (acyclic ones, nodes that hold themselves, and cycles through
\* both nodes; an item of an array or property value of an object is a
\* number or one of the two nodes), and n arrays nested in one another, the
\* innermost one holding a number and the object that is the last node.
InitSanitize ==
    /\ LET Items == {JNum(1), Ref(1), Ref(2)}
           ItemLists == {<<>>} \cup {<<a>> : a \in Items}
                              \cup {<<a, b>> : a, b \in Items}
           Nodes == {Node(kind, items) : kind \in {"array", "object", "error"},
                                         items \in ItemLists}
           TwoNodeHeaps == {<<a, b>> : a \in Nodes, b \in Nodes}
           NestedArrays(n) ==
               [i \in 1..(n + 1) |->
                   IF i < n THEN Node("array", <<Ref(i + 1)>>)
                   ELSE IF i = n THEN Node("array", <<JNum(1), Ref(n + 1)>>)
                   ELSE Node("object", <<JStr(<<"leaf">>)>>)]
           NestedHeaps == {NestedArrays(n) : n \in 1..MaxNest}
       IN fnInput \in
             { [heap |-> heap,
                fields |-> With(With(NoFields, "version", version),
                                "environment", environment)] :
                 heap \in TwoNodeHeaps \cup NestedHeaps,
                 version \in {JStr(<<"1.2.3">>), Ref(1)},
                 environment \in {Absent, Ref(1), Ref(2)} }
    /\ fnOutput = NoApplication
    /\ NODE_ENV = ""
    /\ errorsToTreatAsWarnings = DEFAULT_WARNING_PATTERNS
    /\ debugConfig = DebugOff
    /\ slack = NoSlack
    /\ customTransports = <<>>
    /\ transports = CreateTransports(slack, customTransports)
    /\ added = <<>>
    /\ call = NoCall
    /\ dispatched = <<>>
    /\ handled = <<>>
    /\ delivered = <<>>
    /\ promises = <<>>
    /\ groups = <<>>
    /\ diagnostics = {}
    /\ unhandled = FALSE
    /\ threw = FALSE
    /\ result = "none"
    /\ pc = "idle"

\* sanitizeFields(fields)
ApplySanitizeFields ==
    /\ fnOutput = NoApplication
    /\ LET once == sanitizeFields(fnInput.heap, fnInput.fields, {})
       IN fnOutput' = [fn |-> "sanitizeFields", calls |-> 1,
                       once |-> once, twice |-> once]
    /\ UNCHANGED <<loggerVars, fnInput>>

\* sanitizeFields(sanitizeFields(fields)), on the same transport
ApplySanitizeFieldsAgain ==
    /\ fnOutput.fn = "sanitizeFields"
    /\ fnOutput.calls = 1
    /\ fnOutput' =
          [fnOutput EXCEPT
              !.calls = 2,
              !.twice = sanitizeFields(fnOutput.once.heap, fnOutput.once.value,
                                       fnOutput.once.seen)]
    /\ UNCHANGED <<loggerVars, fnInput>>

NextSanitize ==
    \/ ApplySanitizeFields
    \/ ApplySanitizeFieldsAgain

SpecSanitize == InitSanitize /\ [][NextSanitize]_vars

----------------------------------------------------------------------------
(* Properties of the dispatcher and of the transport list                  *)

Dispatching == pc = "returned" /\ dispatched # <<>>

\* The shouldHandle invocations of the call that answered true, in order.
Eligible == SelectSeq(handled, LAMBDA h : h.ok)

\* C11: a facade call that dispatches an entry asks every transport of the
\* list shouldHandle(level), and the sends it makes are exactly one per
\* transport that answered true, in the order of the list; a transport that
\* answered false gets no send.
FanOutFollowsShouldHandle ==
    Dispatching =>
        /\ Len(handled) = Len(transports)
        /\ \A i \in 1..Len(transports) :
              /\ handled[i].sink = transports[i]
              /\ handled[i].level = dispatched[1].level
              /\ handled[i].ok = ShouldHandle(transports[i], dispatched[1].level)
        /\ Len(delivered) = Len(Eligible)
        /\ \A i \in 1..Len(delivered) : delivered[i].sink = Eligible[i].sink

\* An entry went to two transports and past a transport that refused it.
FanOutSkipsRefusingWitness ==
    /\ Dispatching
    /\ Len(delivered) >= 2
    /\ \E i \in 1..Len(handled) :
          /\ ~handled[i].ok
          /\ \E j \in (i + 1)..Len(handled) : handled[j].ok

Occurrences(list, x) == Cardinality({i \in 1..Len(list) : list[i] = x})

SendsTo(name) == Len(SelectSeq(delivered, LAMBDA d : d.sink = name))

PendingSlack(ps) ==
    \E i \in 1..Len(ps) : ps[i].sink = "slack" /\ ps[i].state = "pending"

\* C13: a facade call has returned while the Slack delivery it started is
\* still pending; and whatever deliveries of earlier calls are still pending,
\* a facade call can be made, and it asks and sends to the transports as it
\* would with nothing pending.
DispatchDoesNotWait ==
    /\ Dispatching =>
          /\ \A i \in 1..Len(promises) :
                promises[i].sink = "slack" => promises[i].state = "pending"
          /\ SendsTo("slack") =
                IF HasSlackTransport /\ SlackShouldHandle(dispatched[1].level)
                THEN 1 ELSE 0
          /\ delivered = SendAll(transports, dispatched[1])
          /\ \A i \in 1..Len(transports) :
                handled[i].ok = ShouldHandle(transports[i], dispatched[1].level)
    /\ pc = "idle" => ENABLED info /\ ENABLED warn

\* A call posted to Slack and returned while the post of an earlier call
\* was still pending.
DispatchedWhilePendingWitness ==
    /\ Dispatching
    /\ SendsTo("slack") = 1
    /\ PendingSlack(promises)
    /\ \E g \in 1..Len(groups) : PendingSlack(groups[g].promises)

----------------------------------------------------------------------------
(* Properties of extractErrorFields and shouldTreatAsWarning               *)

Normalized == fnOutput.fn = "extractErrorFields"

\* C15: extractErrorFields returns for every input, also for an object whose
\* property getter throws, whose field value cannot be converted to a string
\* or which cannot be converted to a string itself, and whatever the getter
\* throws; each such exception gives the invalid-format mapping.
NormalizerNeverRaises ==
    Normalized =>
        /\ ~fnOutput.raised
        /\ ExtractionFailure(fnInput.error).kind # "none" =>
              /\ fnOutput.fields["errorFormatInvalid"] = JBool(TRUE)
              /\ Truthy(fnOutput.fields["errorFormatError"])

\* C16: for every string, number and boolean e, the falsy ones included,
\* extractErrorFields(e) has errorFormatInvalid = true and errorRawValue =
\* String(e); among the values that are no objects only null and undefined
\* give the empty mapping.
NonObjectsAreInvalidFormat ==
    Normalized =>
        LET e == AsPrim(fnInput.error)
        IN /\ e.t \in {"string", "number", "boolean"} =>
                 /\ fnOutput.fields["errorFormatInvalid"] = JBool(TRUE)
                 /\ fnOutput.fields["errorRawValue"] = JStr(JSString(e))
           /\ (fnOutput.fields = NoFields /\ e.t \notin {"object", "array"}) =>
                 e.t \in {"null", "undefined"}

FormatFields == {"message", "reason", "details", "stack"}

PropOf(err, field) ==
    CASE field = "message" -> PropMessage(err)
      [] field = "reason" -> PropReason(err)
      [] field = "details" -> PropDetails(err)
      [] OTHER -> PropStack(err)

\* The field is present and its value has not the expected type.
Mistyped(err, field) ==
    /\ err.trap.on # field
    /\ PropOf(err, field).t # "undefined"
    /\ TypeOf(PropOf(err, field)) \notin
          (IF field = "stack" THEN {"string"} ELSE {"string", "number"})

\* The description names the field: it holds "error.<field>".
Mentions(text, field) ==
    \E i \in 1..(Len(text) - 1) : text[i] = "error." /\ text[i + 1] = field

FormatErrorOf(fields) ==
    IF Has(fields, "errorFormatError") THEN fields["errorFormatError"].s ELSE <<>>

NamesExactlyTheMistyped(err, fields) ==
    /\ \A field \in FormatFields :
          Mentions(FormatErrorOf(fields), field) <=> Mistyped(err, field)
    /\ (\A field \in FormatFields : ~Mistyped(err, field)) =>
          ~Has(fields, "errorFormatInvalid")

NormalizedObject ==
    /\ Normalized
    /\ ~fnOutput.raised
    /\ fnInput.error.t \in {"object", "array"}

\* C17 as stated: for every object e, errorFormatError names exactly the
\* present fields among message, reason, details and stack whose value has
\* not the expected type, and there is no errorFormatInvalid key when every
\* present field has.
FormatErrorNamesMistypedFields ==
    NormalizedObject => NamesExactlyTheMistyped(fnInput.error, fnOutput.fields)

\* C17, amended: for every object e whose properties are read and converted
\* to strings without an exception, errorFormatError names exactly the
\* present fields whose value has not the expected type, and there is no
\* errorFormatInvalid key when every present field has; when a read or a
\* conversion throws, the mapping returned is flagged invalid and its
\* description is "Failed to extract error fields: ..." and names no field.
FormatErrorNamesMistypedFieldsUnlessThrown ==
    NormalizedObject =>
        IF ExtractionFailure(fnInput.error).kind = "none"
        THEN NamesExactlyTheMistyped(fnInput.error, fnOutput.fields)
        ELSE /\ fnOutput.fields["errorFormatInvalid"] = JBool(TRUE)
             /\ FormatErrorOf(fnOutput.fields)[1] = "Failed to extract error fields: "
             /\ \A field \in FormatFields :
                   ~Mentions(FormatErrorOf(fnOutput.fields), field)

\* An object with a mistyped message and a mistyped stack, and a well-typed
\* reason, has been normalized.
TwoMistypedFieldsWitness ==
    /\ NormalizedObject
    /\ ExtractionFailure(fnInput.error).kind = "none"
    /\ Mistyped(fnInput.error, "message")
    /\ Mistyped(fnInput.error, "stack")
    /\ fnInput.error.reason.t = "number"
    /\ Mentions(FormatErrorOf(fnOutput.fields), "message")
    /\ Mentions(FormatErrorOf(fnOutput.fields), "stack")

\* message or reason taken as a string, empty when absent
TextOf(v) == IF v.t = "undefined" THEN <<>> ELSE JSString(v)

\* C18: for an error whose properties can be read, shouldTreatAsWarning
\* returns, and it returns true exactly when the error is present, the
\* pattern list is not empty and some pattern occurs, case-sensitively, in
\* the message or the reason taken as strings; it returns false for the empty
\* list.
ReclassifierMatchesSubstring ==
    (fnOutput.fn = "shouldTreatAsWarning" /\ fnInput.error.trap.on = "none") =>
        /\ fnOutput.answer \in {"true", "false"}
        /\ fnOutput.answer = "true" <=>
              /\ Truthy(AsPrim(fnInput.error))
              /\ fnInput.patterns # <<>>
              /\ \E i \in 1..Len(fnInput.patterns) :
                    \/ Includes(TextOf(PropMessage(fnInput.error)),
                                fnInput.patterns[i])
                    \/ Includes(TextOf(PropReason(fnInput.error)),
                                fnInput.patterns[i])
        /\ fnInput.patterns = <<>> => fnOutput.answer = "false"

----------------------------------------------------------------------------
(* Properties of sanitizeFields                                            *)

SanitizedOnce == fnOutput.fn = "sanitizeFields"

SanitizedTwice == SanitizedOnce /\ fnOutput.calls = 2

\* The fields are JSON-safe: they reach no cycle and no Error instance.
RECURSIVE ReachesError(_, _)
ReachesError(heap, value) ==
    /\ value.t = "ref"
    /\ \/ heap[value.n].kind = "error"
       \/ \E i \in 1..Len(heap[value.n].items) :
              ReachesError(heap, heap[value.n].items[i])

JSONSafe(heap, fields) ==
    \A k \in FieldKeys :
        /\ ~StringifyThrows(heap, fields[k], {})
        /\ ~ReachesError(heap, fields[k])

\* Two values are equal as data: the same primitive, or arrays, or objects,
\* whose items are equal as data.
RECURSIVE DeepEqual(_, _, _, _)
DeepEqual(h1, v1, h2, v2) ==
    IF v1.t = "ref" /\ v2.t = "ref"
    THEN /\ h1[v1.n].kind = h2[v2.n].kind
         /\ Len(h1[v1.n].items) = Len(h2[v2.n].items)
         /\ \A i \in 1..Len(h1[v1.n].items) :
               DeepEqual(h1, h1[v1.n].items[i], h2, h2[v2.n].items[i])
    ELSE v1 = v2

\* C19: for JSON-safe fields x, arrays and objects of primitives nested at
\* any depth, sanitizeFields(sanitizeFields(x)) equals sanitizeFields(x).
SanitizeIsIdempotent ==
    (SanitizedTwice /\ JSONSafe(fnInput.heap, fnInput.fields)) =>
        \A k \in FieldKeys :
            DeepEqual(fnOutput.once.heap, fnOutput.once.value[k],
                      fnOutput.twice.heap, fnOutput.twice.value[k])

\* JSON-safe fields with arrays nested past the depth limit, and an object
\* under a second key, have been sanitized twice.
DeepFieldsSanitizedTwiceWitness ==
    /\ SanitizedTwice
    /\ JSONSafe(fnInput.heap, fnInput.fields)
    /\ Len(fnInput.heap) > MAX_DEPTH + 2
    /\ fnInput.fields["version"] = Ref(1)
    /\ fnInput.fields["environment"] = Ref(2)
    /\ fnOutput.once.deepest = MAX_DEPTH

\* C20: on every fields graph, cyclic ones included (an object that holds
\* itself, an array that holds itself, a cycle through an array and an
\* object), sanitizeFields returns a mapping with the keys of its input, no
\* value of which reaches a cycle, and it has looked at no value deeper than
\* depth 5: there the marker is substituted.
SanitizeEndsOnCycles ==
    SanitizedOnce =>
        /\ fnOutput.once.deepest <= MAX_DEPTH
        /\ \A k \in FieldKeys :
              /\ Has(fnOutput.once.value, k) <=> Has(fnInput.fields, k)
              /\ ~StringifyThrows(fnOutput.once.heap, fnOutput.once.value[k], {})

\* An array that holds itself and an object has been sanitized down to the
\* depth limit.
SelfHoldingArraySanitizedWitness ==
    /\ SanitizedOnce
    /\ fnInput.fields["version"] = Ref(1)
    /\ fnInput.heap[1] = Node("array", <<Ref(1), Ref(2)>>)
    /\ fnInput.heap[2] = Node("object", <<Ref(1), Ref(2)>>)
    /\ fnOutput.once.deepest = MAX_DEPTH

----------------------------------------------------------------------------
(* Properties of SlackTransport.send under delivery failures               *)

\* C21: the promise SlackTransport.send returns never rejects, whatever the
\* remote delivery fails with: no promise of the Slack transport is in state
\* rejected, and the dispatcher's catch handler never reports a failure of
\* the Slack transport.
SlackSendNeverRejects ==
    /\ \A g \in 1..Len(groups) :
          \A i \in 1..Len(groups[g].promises) :
              groups[g].promises[i].sink = "slack" =>
                  groups[g].promises[i].state # "rejected"
    /\ TransportErrorLine(RejectionOf("slack")) \notin diagnostics

----------------------------------------------------------------------------
(* Properties of SlackTransport.getChannel                                 *)

SlackPosts == {i \in 1..Len(delivered) : delivered[i].sink = "slack"}

\* The customChannel the call hands to SlackTransport.send: sendToSlack
\* passes its option on, sendToTransports passes none.
Override ==
    IF call.op = "sendToSlack" /\ Len(call.args) >= 2
    THEN call.args[2].customChannel
    ELSE Undef

\* The channel configured for the Slack level a log level is mapped to.
ChannelFor(level) ==
    LET key == IF level = "error-background" THEN "error-bg" ELSE level
    IN IF key \in DOMAIN slack.channels THEN slack.channels[key] ELSE <<>>

\* C22: every post to Slack goes to the customChannel given to send, when
\* one is given, else to the channel configured for the mapped level, in
\* both cases with a leading '#' added when missing; when neither exists the
\* payload has no channel key, and no channel name is generated.
DestinationIsOverrideThenConfigured ==
    \A i \in SlackPosts :
        LET name == IF Override.t = "string" /\ Override.s # <<>>
                    THEN Override.s
                    ELSE ChannelFor(delivered[i].level)
        IN IF name = <<>> THEN delivered[i].channel = Undef
           ELSE /\ delivered[i].channel.t = "string"
                /\ delivered[i].channel.s =
                      (IF name[1] = "#" THEN name ELSE <<"#">> \o name)

\* A post whose customChannel, given without '#', won over a channel
\* configured for the level.
OverrideWinsOverConfiguredWitness ==
    /\ call.op = "sendToSlack"
    /\ \E i \in SlackPosts :
          /\ Override = JStr(<<"d", "e">>)
          /\ ChannelFor(delivered[i].level) # <<>>
          /\ delivered[i].channel = JStr(<<"#", "d", "e">>)

----------------------------------------------------------------------------
(* Properties of the environment functions                                 *)

ArityViolated == Len(call.args) = 0 \/ Len(call.args) > 2

\* The Slack transport was asked about a level it posts and refused.
SlackSkipped ==
    \E i \in 1..Len(handled) :
        /\ handled[i].sink = "slack"
        /\ handled[i].level \in RemoteLevels
        /\ ~handled[i].ok

\* C24 as stated: getEnvironment() is one of development, staging and
\* production, and for every setting other than "staging" and "production"
\* isDevelopment() is true, error() calls of wrong arity are dropped and a
\* Slack transport with the skip flag handles nothing.
UnknownSettingIsDevelopment ==
    /\ getEnvironment \in {"development", "staging", "production"}
    /\ NODE_ENV \notin {"staging", "production"} =>
          /\ isDevelopment
          /\ (Returned(ErrorOps) /\ ArityViolated) => dispatched = <<>>
          /\ slack.skipInDevelopment =>
                \A i \in 1..Len(handled) :
                    handled[i].sink = "slack" => ~handled[i].ok

\* C24, amended: getEnvironment() is the setting itself, development when it
\* is absent; isDevelopment() is true exactly for an absent setting and for
\* "development", and exactly then a call of error() or errorBackground()
\* of wrong arity is dropped and an enabled Slack transport with the skip
\* flag refuses warn, error and error-background.
DevelopmentIsAbsentOrNamed ==
    LET development == NODE_ENV \in {"", "development"}
    IN /\ getEnvironment \in {"development", "staging", "production"}
             <=> NODE_ENV \in {"", "development", "staging", "production"}
       /\ isDevelopment <=> development
       /\ ~(isDevelopment /\ (isStaging \/ isProduction))
       /\ (Returned(ErrorOps) /\ ArityViolated /\ ~threw) =>
             (dispatched = <<>> <=> development)
       /\ (slack.skipInDevelopment /\ slack.enabled) =>
             (SlackSkipped => development)
       /\ (slack.skipInDevelopment /\ development) => SlackDeliveries = <<>>

\* With the setting "test" and the skip flag set, error() was called with
\* three arguments, and its entry was dispatched and posted to Slack.
TestEnvironmentNotDevelopmentWitness ==
    /\ Returned({"error"})
    /\ NODE_ENV = "test"
    /\ Len(call.args) > 2
    /\ Len(dispatched) = 1
    /\ slack.skipInDevelopment
    /\ Len(SlackDeliveries) = 1

----------------------------------------------------------------------------
(* Properties of the mapping extractErrorFields returns                    *)

RawKey(field) ==
    CASE field = "message" -> "errorRawMessage"
      [] field = "reason" -> "errorRawReason"
      [] field = "details" -> "errorRawDetails"
      [] OTHER -> "errorRawStack"

\* The clauses of the mistyped fields of err, in the order message, reason,
\* details, stack, joined by "; ".
ClausesInOrder(err) ==
    LET mistyped == SelectSeq(<<"message", "reason", "details", "stack">>,
                              LAMBDA field : Mistyped(err, field))
    IN [i \in 1..(4 * Len(mistyped) - 1) |->
           LET field == mistyped[((i - 1) \div 4) + 1]
           IN CASE (i - 1) % 4 = 0 -> "error."
                [] (i - 1) % 4 = 1 -> field
                [] (i - 1) % 4 = 2 ->
                      IF field = "stack" THEN " must be a string"
                      ELSE " must be a string or number"
                [] OTHER -> "; "]

\* The mapping holds String(value) under errorRaw<F> for exactly the
\* mistyped fields F among the given ones.
RawCopiesOf(err, fields, among) ==
    \A field \in among :
        fields[RawKey(field)] =
            IF Mistyped(err, field) THEN JStr(JSString(PropOf(err, field)))
            ELSE Absent

\* C23 as stated: for every object e, each present field among message,
\* reason, details and stack whose value has not the expected type has its
\* raw value under errorRawMessage, errorRawReason, errorRawDetails,
\* errorRawStack, and errorFormatError holds the clauses joined by "; " in
\* the order message, reason, details, stack.
RawCopyOfEveryMistypedField ==
    NormalizedObject =>
        /\ RawCopiesOf(fnInput.error, fnOutput.fields, FormatFields)
        /\ FormatErrorOf(fnOutput.fields) = ClausesInOrder(fnInput.error)

\* C23, amended: for every object e whose properties are read and converted
\* without an exception, String(value) of each mistyped present field among
\* message, reason and details is under errorRawMessage, errorRawReason,
\* errorRawDetails; a mistyped stack adds its clause and no errorRawStack
\* key; and errorFormatError holds the clauses joined by "; " in the order
\* message, reason, details, stack.
RawCopyExceptOfStack ==
    (NormalizedObject /\ ExtractionFailure(fnInput.error).kind = "none") =>
        /\ RawCopiesOf(fnInput.error, fnOutput.fields,
                       {"message", "reason", "details"})
        /\ fnOutput.fields["errorRawStack"] = Absent
        /\ FormatErrorOf(fnOutput.fields) = ClausesInOrder(fnInput.error)

\* An object whose message, details and stack are mistyped has been
\* normalized: raw copies of message and details, none of the stack, three
\* clauses.
MistypedStackWithoutRawCopyWitness ==
    /\ NormalizedObject
    /\ ExtractionFailure(fnInput.error).kind = "none"
    /\ Mistyped(fnInput.error, "message")
    /\ ~Mistyped(fnInput.error, "reason")
    /\ Mistyped(fnInput.error, "details")
    /\ Mistyped(fnInput.error, "stack")
    /\ Has(fnOutput.fields, "errorRawMessage")
    /\ Has(fnOutput.fields, "errorRawDetails")
    /\ ~Has(fnOutput.fields, "errorRawStack")
    /\ Len(FormatErrorOf(fnOutput.fields)) = 11

\* C25: in every mapping extractErrorFields returns -- for a value that is
\* no object, for an object with mistyped fields, and from its catch block
\* -- an errorFormatInvalid key comes with an errorFormatError that is a
\* string and not empty.
InvalidFlagComesWithDescription ==
    (Normalized /\ ~fnOutput.raised) =>
        (Has(fnOutput.fields, "errorFormatInvalid") =>
            /\ fnOutput.fields["errorFormatInvalid"] = JBool(TRUE)
            /\ fnOutput.fields["errorFormatError"].t = "string"
            /\ fnOutput.fields["errorFormatError"].s # <<>>
            /\ \E i \in 1..Len(fnOutput.fields["errorFormatError"].s) :
                  fnOutput.fields["errorFormatError"].s[i] # "")

\* The catch block has returned a mapping for an object whose getter threw a
\* value without message.
FlaggedFromCatchBlockWitness ==
    /\ Normalized
    /\ ~fnOutput.raised
    /\ ExtractionFailure(fnInput.error).kind = "string"
    /\ Has(fnOutput.fields, "errorFormatInvalid")
    /\ FormatErrorOf(fnOutput.fields) =
          <<"Failed to extract error fields: ", "undefined">>

----------------------------------------------------------------------------
(* Properties of error() and errorBackground()                             *)

\* C26: an entry errorBackground dispatches is either demoted to warn or has
\* level error-background and the field isBackground = true, and is never
\* at level error; an entry error() dispatches is never at level
\* error-background and has no isBackground field.
BackgroundEntriesAreTagged ==
    /\ Returned({"errorBackground"}) =>
          \A i \in 1..Len(dispatched) :
              /\ dispatched[i].level \in {"warn", "error-background"}
              /\ dispatched[i].level = "error-background" =>
                    dispatched[i].fields["isBackground"] = JBool(TRUE)
              /\ dispatched[i].level = "warn" =>
                    /\ Len(call.args) >= 2
                    /\ PatternInMessageOrReason(call.args[2])
    /\ Returned({"error"}) =>
          \A i \in 1..Len(dispatched) :
              /\ dispatched[i].level \in {"warn", "error"}
              /\ ~Has(dispatched[i].fields, "isBackground")

\* errorBackground was called with an error that matches no pattern, and
\* its entry went out at level error-background, tagged, to Slack as well.
BackgroundEntryTaggedWitness ==
    /\ Returned({"errorBackground"})
    /\ Len(call.args) = 2
    /\ Truthy(AsPrim(call.args[2]))
    /\ Len(dispatched) = 1
    /\ dispatched[1].level = "error-background"
    /\ dispatched[1].fields["isBackground"] = JBool(TRUE)
    /\ \E i \in 1..Len(delivered) :
          /\ delivered[i].sink = "slack"
          /\ delivered[i].fields["isBackground"] = JBool(TRUE)

----------------------------------------------------------------------------
(* Properties of a logger after createLogger was called again              *)

\* C27: the environment configured for another logger becomes the
\* environment of the process, and the logger created with environment
\* production and the skip flag follows it at every call: while the
\* environment is development its Slack transport refuses every level and
\* posts nothing and its error() and errorBackground() calls of wrong arity
\* dispatch nothing; otherwise the transport handles warn, error and
\* error-background and such calls dispatch one entry.
EnvironmentIsProcessWide ==
    /\ (Returned({"createLogger"}) /\ Truthy(AsPrim(call.args[1]))) =>
          NODE_ENV = call.args[1].s[1]
    /\ \A i \in 1..Len(handled) :
          handled[i].sink = "slack" =>
              (handled[i].ok <=> NODE_ENV # "development")
    /\ NODE_ENV = "development" => SlackDeliveries = <<>>
    /\ (Returned(ErrorOps) /\ ArityViolated /\ ~threw) =>
          IF NODE_ENV = "development" THEN dispatched = <<>>
          ELSE Len(dispatched) = 1

\* After createLogger({ environment: 'development' }) for another logger,
\* error(message, err) of the logger created for production was refused by
\* its Slack transport, and written to the console only.
ProductionLoggerSkipsAfterOverrideWitness ==
    /\ Returned({"error"})
    /\ NODE_ENV = "development"
    /\ Len(call.args) = 2
    /\ Len(dispatched) = 1
    /\ \E i \in 1..Len(handled) : handled[i].sink = "slack" /\ ~handled[i].ok
    /\ SlackDeliveries = <<>>
    /\ Len(ConsoleDeliveries) = 1

----------------------------------------------------------------------------
(* Properties of the transport list                                        *)

\* C28: whatever facade calls, addTransport calls and getTransports calls
\* were made, and whatever was done to the arrays getTransports returned,
\* the logger's list is the console transport, the Slack transport iff a
\* webhook URL is configured, config.transports, and the transports added,
\* in the order added; and a dispatch asks exactly the transports of that
\* list, in that order.
TransportListIsAppendOnly ==
    LET expected == <<"console">>
                    \o (IF slack.webhookUrl # "" THEN <<"slack">> ELSE <<>>)
                    \o customTransports \o added
    IN /\ transports = expected
       /\ Dispatching =>
             /\ Len(handled) = Len(expected)
             /\ \A i \in 1..Len(expected) : handled[i].sink = expected[i]

\* The array getTransports returned, for a logger with Slack, a configured
\* transport and an added one, was emptied by the caller; the logger's list
\* still has its four transports.
ReturnedArrayEmptiedWitness ==
    /\ Returned({"getTransports"})
    /\ result.array = <<>>
    /\ ~result.own
    /\ transports = <<"console", "slack", "datadog">> \o added
    /\ Len(added) = 1

----------------------------------------------------------------------------
(* Properties of the seen-set of sanitizeFields                            *)

\* value is an object (no array) that JSON.stringify accepts.
SerializableObject(heap, value) ==
    /\ value.t = "ref"
    /\ heap[value.n].kind \in {"object", "error"}
    /\ ~StringifyThrows(heap, value, {})

\* value is an array whose items are primitives and serializable objects.
ArrayOfObjects(heap, value) ==
    /\ value.t = "ref"
    /\ heap[value.n].kind = "array"
    /\ \A i \in 1..Len(heap[value.n].items) :
          heap[value.n].items[i].t = "ref" =>
              SerializableObject(heap, heap[value.n].items[i])

\* C29: in one sanitizeFields call the first occurrence of a serializable
\* object, as a field value or as an item of an array, is returned as it is,
\* and every later occurrence of the same object, under the next key or
\* further on in the array, is replaced by '[Circular Reference]', although
\* the data has no cycle; in the next call, on the same transport, the
\* object passes again.
SeenSetIsSharedWithinOneCall ==
    LET heap == fnInput.heap
        version == fnInput.fields["version"]
        environment == fnInput.fields["environment"]
        marker == JStr(<<"[Circular Reference]">>)
    IN /\ (SanitizedOnce /\ SerializableObject(heap, version)) =>
             /\ fnOutput.once.value["version"] = version
             /\ SerializableObject(heap, environment) =>
                   fnOutput.once.value["environment"] =
                       IF environment = version THEN marker ELSE environment
       /\ (SanitizedOnce /\ ArrayOfObjects(heap, version)) =>
             LET items == heap[version.n].items
                 mapped == fnOutput.once.value["version"]
             IN /\ mapped.t = "ref"
                /\ Len(fnOutput.once.heap[mapped.n].items) = Len(items)
                /\ \A i \in 1..Len(items) :
                      fnOutput.once.heap[mapped.n].items[i] =
                          IF /\ items[i].t = "ref"
                             /\ \E j \in 1..(i - 1) : items[j] = items[i]
                          THEN marker ELSE items[i]
                /\ SerializableObject(heap, environment) =>
                      fnOutput.once.value["environment"] =
                          IF \E j \in 1..Len(items) : items[j] = environment
                          THEN marker ELSE environment
       /\ SanitizedTwice =>
             \A k \in FieldKeys :
                 SerializableObject(fnOutput.once.heap, fnOutput.once.value[k])
                 => fnOutput.twice.value[k] = fnOutput.once.value[k]

\* The same object twice in an array and once more under the next key, in
\* data without a cycle: the first occurrence was kept and the other two
\* were replaced by the marker.
SecondOccurrenceMarkedWitness ==
    /\ SanitizedOnce
    /\ fnInput.heap = <<Node("array", <<Ref(2), Ref(2)>>),
                        Node("object", <<JNum(1)>>)>>
    /\ fnInput.fields["version"] = Ref(1)
    /\ fnInput.fields["environment"] = Ref(2)
    /\ fnOutput.once.heap[fnOutput.once.value["version"].n].items =
          <<Ref(2), JStr(<<"[Circular Reference]">>)>>
    /\ fnOutput.once.value["environment"] = JStr(<<"[Circular Reference]">>)

====
